---- MODULE Spec2Model ----
(***************************************************************************)
(* Model of cli/lsp/diagnostics.rs: the diagnostics publisher (merged      *)
(* per-source store), the DiagnosticsState, the TsDiagnosticsStore and the *)
(* diagnostics server's worker loop with its three chained task kinds.     *)
(*                                                                         *)
(* The worker runs a current-thread runtime: the worker loop and the tasks *)
(* it spawns interleave only at .await points, so every action below is    *)
(* the code between two .await points of one task.  The lint and deps      *)
(* generators (spawn_blocking) and the callers of the server's methods     *)
(* run on other threads.                                                   *)
(***************************************************************************)
EXTENDS Integers, Sequences, FiniteSets, TLC

\* ------------------------------------------------------------ bounds
\* Number of publish calls the publisher harness makes.
MaxCalls == 3
\* Number of update calls made on the diagnostics server.
MaxUpdates == 2
\* Number of invalidate_all calls made on the diagnostics server.
MaxInvalidations == 1

\* ------------------------------------------------------------ data model
Specifiers == {"file:///a.ts", "file:///b.ts"}

\* enum DiagnosticSource
DiagnosticSource == {"Deno", "Lint", "Ts"}

\* HashMap iteration order is unspecified; lists built from a
\* DiagnosticsBySource are taken in this fixed order of its keys.
SourceOrder == <<"Deno", "Lint", "Ts">>

as_lsp_source(source) ==
  CASE source = "Deno" -> "deno"
    [] source = "Lint" -> "deno-lint"
    [] source = "Ts" -> "deno-ts"

\* Option<T>: None is the empty tuple, Some(x) the one-element tuple.
None == << >>
Some(x) == <<x>>

\* lsp::Diagnostic, reduced to the fields the server reads: source and code
\* (lsp::NumberOrString: a kind and the code's text).
Diagnostic(source) ==
  CASE source = "Deno" ->
         [source |-> as_lsp_source(source), codeKind |-> "String", code |-> "no-cache"]
    [] source = "Lint" ->
         [source |-> as_lsp_source(source), codeKind |-> "String", code |-> "no-explicit-any"]
    [] source = "Ts" ->
         [source |-> as_lsp_source(source), codeKind |-> "Number", code |-> "2322"]

\* The diagnostics lists a generator of `source` may attach to a document.
DiagnosticLists(source) == {<< >>, <<Diagnostic(source)>>}

\* struct VersionedDiagnostics
VersionedDiagnostics(source, versions) ==
  [version : versions, diagnostics : DiagnosticLists(source)]

\* struct DiagnosticRecord
DiagnosticRecord(source, versions) ==
  [specifier : Specifiers, versioned : VersionedDiagnostics(source, versions)]

\* The documents of a snapshot are enumerated in one order; the specifiers
\* are interchangeable, so a batch lists its records in this order.
SpecifierOrder == <<"file:///a.ts", "file:///b.ts">>

\* type DiagnosticVec, with one record per document at most (a generator
\* emits one record per open document).
DiagnosticVec(source, versions) ==
  {<< >>}
  \cup {<<r>> : r \in DiagnosticRecord(source, versions)}
  \cup {y \in DiagnosticRecord(source, versions) \X DiagnosticRecord(source, versions) :
          y[1].specifier = SpecifierOrder[1] /\ y[2].specifier = SpecifierOrder[2]}

\* ------------------------------------------------------------ maps
EmptyMap == [x \in {} |-> 0]
MapPut(m, k, v) == [x \in DOMAIN m \cup {k} |-> IF x = k THEN v ELSE m[x]]
MapRemove(m, k) == [x \in DOMAIN m \ {k} |-> m[x]]
MapRemoveAll(m, ks) == [x \in DOMAIN m \ ks |-> m[x]]

\* ------------------------------------------------------------ state
VARIABLES
  diagnostics_by_specifier, \* DiagnosticsPublisher: specifier -> (source -> VersionedDiagnostics)
  specifiers,               \* DiagnosticsState: specifier -> SpecifierState
  ts_diagnostics,           \* TsDiagnosticsStore: specifier -> VersionedDiagnostics
  client,                   \* the editor: specifier -> the last publishDiagnostics it received
  cancelled,                \* the CancellationTokens that have been cancelled
  pub,                      \* the publish call that holds the merged store's lock
  pre_store,                \* diagnostics_by_specifier when that call took the lock
  ncalls,                   \* publish calls made by the publisher harness
  channel,                  \* DiagnosticsServer.channel: None, or Some(the messages in flight)
  batch_counter,            \* DiagnosticBatchCounter: None, or Some(the counter)
  token,                    \* the worker loop's current CancellationToken
  worker,                   \* where the worker loop is
  tasks,                    \* the tasks spawned for each Update, by update and source
  lock_queue,               \* the waiters for the merged store's lock, first come first
  caller,                   \* the thread that calls the server's methods
  cleared,                  \* the newest token cancelled by a Clear that was fully processed
  call                      \* the last call made on a component driven directly, and its result

pubvars == <<diagnostics_by_specifier, specifiers, ts_diagnostics, client,
             cancelled, pub, pre_store, ncalls>>
srvvars == <<channel, batch_counter, token, worker, tasks, lock_queue, caller, cleared>>
vars == <<pubvars, srvvars, call>>

\* ------------------------------------------------------------ DiagnosticsState
\* Mutant of IsNoCacheCode: "no-cache-npm" is forgotten.
IsNoCacheOnly(diagnostic) ==
  diagnostic.codeKind = "String" /\ diagnostic.code = "no-cache"

IsNoCacheCode(diagnostic) ==
  diagnostic.codeKind = "String"
  /\ (diagnostic.code = "no-cache" \/ diagnostic.code = "no-cache-npm")

\* Mutant of StateRejects: an older version is let through.
StateRejectsNever(state, specifier, version) == FALSE

\* DiagnosticsState::update applied to the map `state`.
StateRejects(state, specifier, version) ==
  LET current_version ==
        IF specifier \in DOMAIN state THEN state[specifier].version ELSE None
  IN version # None /\ current_version # None /\ version[1] < current_version[1]

StateUpdate(state, specifier, version, diagnostics) ==
  IF StateRejects(state, specifier, version)
  THEN state
  ELSE MapPut(state, specifier,
              [version |-> version,
               no_cache_diagnostics |-> SelectSeq(diagnostics, IsNoCacheCode)])

\* ------------------------------------------------------------ publisher
IsCancelled(tok) == tok \in cancelled

\* Mutant of AllSpecifierDiagnostics: the lists pinned to a version older
\* than the newest one held are dropped.
AllSpecifierDiagnosticsNewest(by_source) ==
  LET rank(source) == IF by_source[source].version = None THEN 0
                      ELSE by_source[source].version[1]
      part(i) == IF /\ SourceOrder[i] \in DOMAIN by_source
                    /\ \A other \in DOMAIN by_source : rank(other) <= rank(SourceOrder[i])
                 THEN by_source[SourceOrder[i]].diagnostics
                 ELSE << >>
  IN part(1) \o part(2) \o part(3)

\* The list published for one specifier: every source's list, whatever
\* version each is pinned to.
AllSpecifierDiagnostics(by_source) ==
  LET part(i) == IF SourceOrder[i] \in DOMAIN by_source
                 THEN by_source[SourceOrder[i]].diagnostics
                 ELSE << >>
  IN part(1) \o part(2) \o part(3)

PublishDiagnostics(specifier, diagnostics, version) ==
  [specifier |-> specifier, diagnostics |-> diagnostics, version |-> version]

\* What one run of publish's code between two awaits leaves behind.
Outcome(p, store, state, cl) ==
  [pub |-> p, store |-> store, state |-> state, client |-> cl]

Emit(p, cl, message) ==
  MapPut(cl, message.specifier,
         [diagnostics |-> message.diagnostics, version |-> message.version])

\* `if token.is_cancelled() { return messages_sent; }` at the top of the
\* record loop.
RecordLoopCancelled(p) == IsCancelled(p.token)

\* Mutant of PublishCancelled: the token is checked after the record's slot
\* has been written.
PublishCancelledAfterWrite(p, store, state, cl) ==
  LET record == Head(p.records)
      by_source == MapPut(IF record.specifier \in DOMAIN store
                          THEN store[record.specifier] ELSE EmptyMap,
                          p.source, record.versioned)
  IN Outcome([p EXCEPT !.phase = "returned"],
             MapPut(store, record.specifier, by_source), state, cl)

\* The record loop finds the token cancelled: publish returns at once.
PublishCancelled(p, store, state, cl) ==
  Outcome([p EXCEPT !.phase = "returned"], store, state, cl)

\* Mutant of PublishRecord: the record's list is added to the list the slot
\* holds instead of replacing it.
PublishRecordAdding(p, store, state, cl) ==
  LET record == Head(p.records)
      specifier == record.specifier
      version == record.versioned.version
      old == IF specifier \in DOMAIN store THEN store[specifier] ELSE EmptyMap
      held == IF p.source \in DOMAIN old THEN old[p.source].diagnostics ELSE << >>
      by_source == MapPut(old, p.source,
                          [version |-> version,
                           diagnostics |-> held \o record.versioned.diagnostics])
      all_specifier_diagnostics == AllSpecifierDiagnostics(by_source)
      message == PublishDiagnostics(specifier, all_specifier_diagnostics, version)
  IN Outcome([p EXCEPT !.records = Tail(@),
                       !.seen_specifiers = @ \cup {specifier},
                       !.phase = "awaitRecord",
                       !.sent = Append(@, message)],
             MapPut(store, specifier, by_source),
             StateUpdate(state, specifier, version, all_specifier_diagnostics),
             Emit(p, cl, message))

\* One iteration of the record loop, up to the await of publish_diagnostics.
PublishRecord(p, store, state, cl) ==
  LET record == Head(p.records)
      specifier == record.specifier
      version == record.versioned.version
      by_source == MapPut(IF specifier \in DOMAIN store THEN store[specifier] ELSE EmptyMap,
                          p.source, record.versioned)
      all_specifier_diagnostics == AllSpecifierDiagnostics(by_source)
      message == PublishDiagnostics(specifier, all_specifier_diagnostics, version)
  IN Outcome([p EXCEPT !.records = Tail(@),
                       !.seen_specifiers = @ \cup {specifier},
                       !.phase = "awaitRecord",
                       !.sent = Append(@, message)],
             MapPut(store, specifier, by_source),
             StateUpdate(state, specifier, version, all_specifier_diagnostics),
             Emit(p, cl, message))

\* The end of publish: drop the specifiers left without diagnostics, return.
PublishReturn(p, store, state, cl) ==
  Outcome([p EXCEPT !.phase = "returned", !.todo = {}],
          MapRemoveAll(store, p.specifiers_to_remove), state, cl)

\* Mutant of CleanupEntry: the entry is dropped without the clearing publish.
CleanupEntryNoPublish(by_source, source) ==
  LET rest == MapRemove(by_source, source)
  IN [by_source |-> rest,
      remove |-> DOMAIN rest = {},
      publish |-> FALSE,
      removed_value |-> None]

\* The clean-up of one entry of the merged store that the batch did not see.
CleanupEntry(by_source, source) ==
  LET maybe_removed_value ==
        IF source \in DOMAIN by_source THEN Some(by_source[source]) ELSE None
      rest == MapRemove(by_source, source)
  IN [by_source |-> rest,
      remove |-> DOMAIN rest = {},
      publish |-> DOMAIN rest = {} /\ maybe_removed_value # None,
      removed_value |-> maybe_removed_value]

CleanupStore(store, done, source) ==
  [s \in DOMAIN store |->
     IF s \in done THEN CleanupEntry(store[s], source).by_source ELSE store[s]]

\* The clean-up loop from its current position to its next await or its
\* end.  The map is iterated in an unspecified order: any set `silent` of
\* entries that need no publish may come before the next one that does.
PublishCleanup(p, store, state, cl) ==
  IF IsCancelled(p.token)
  THEN {PublishReturn(p, store, state, cl)}
  ELSE LET publishing == {s \in p.todo : CleanupEntry(store[s], p.source).publish}
           quiet == p.todo \ publishing
           removes(ss) == {s \in ss : CleanupEntry(store[s], p.source).remove}
       IN IF publishing = {}
          THEN {PublishReturn(
                  [p EXCEPT !.specifiers_to_remove = @ \cup removes(quiet)],
                  CleanupStore(store, quiet, p.source), state, cl)}
          ELSE {LET removed_value == CleanupEntry(store[s], p.source).removed_value[1]
                    message == PublishDiagnostics(s, << >>, removed_value.version)
                IN Outcome([p EXCEPT !.todo = @ \ (silent \cup {s}),
                                     !.specifiers_to_remove = @ \cup removes(silent \cup {s}),
                                     !.phase = "awaitClear",
                                     !.sent = Append(@, message)],
                           CleanupStore(store, silent \cup {s}, p.source),
                           StateUpdate(state, s, removed_value.version, << >>),
                           Emit(p, cl, message))
                : silent \in SUBSET quiet, s \in publishing}

\* Mutant of Resumed: a clearing publish is not counted.
ResumedRecordsOnly(p0) ==
  IF p0.phase = "awaitRecord" THEN [p0 EXCEPT !.messages_sent = @ + 1] ELSE p0

\* `messages_sent += 1` once the publish_diagnostics awaited has completed.
Resumed(p0) ==
  IF p0.phase \in {"awaitRecord", "awaitClear"}
  THEN [p0 EXCEPT !.messages_sent = @ + 1]
  ELSE p0

\* publish from the point where it holds the lock or resumes after the
\* await of a publish_diagnostics, to its next await or its return.
PublishSegment(p0, store, state, cl) ==
  LET p == Resumed(p0)
  IN IF p0.phase \in {"locked", "awaitRecord"}
     THEN IF p.records # << >>
          THEN IF RecordLoopCancelled(p)
               THEN {PublishCancelled(p, store, state, cl)}
               ELSE {PublishRecord(p, store, state, cl)}
          ELSE PublishCleanup([p EXCEPT !.todo = DOMAIN store \ p.seen_specifiers],
                              store, state, cl)
     ELSE PublishCleanup(p, store, state, cl)

\* No publish call holds the lock.
PubIdle == [phase |-> "idle"]

\* A publish call that has just taken the lock.
PubLocked(owner, source, diagnostics, tok) ==
  [phase |-> "locked", owner |-> owner, source |-> source, records |-> diagnostics,
   token |-> tok, seen_specifiers |-> {}, messages_sent |-> 0,
   specifiers_to_remove |-> {}, todo |-> {}, sent |-> << >>]

\* DiagnosticsPublisher::new, and the stores as they are constructed.
PublisherInit ==
  /\ diagnostics_by_specifier = EmptyMap
  /\ specifiers = EmptyMap
  /\ ts_diagnostics = EmptyMap
  /\ client = EmptyMap
  /\ cancelled = {}
  /\ pub = PubIdle
  /\ pre_store = EmptyMap
  /\ ncalls = 0

\* ------------------------------------------------------------ generators
\* A StateSnapshot, reduced to its open diagnosable documents and their
\* versions: specifier -> Option<i32>.
Snapshot(open, version) == [s \in open |-> version]

\* The snapshot's documents in the order they are enumerated.
Documents(snapshot) ==
  SelectSeq(SpecifierOrder, LAMBDA s : s \in DOMAIN snapshot)

\* One record per document, each with the findings of `source` for it.
RecordsOf(snapshot, source) ==
  LET documents == Documents(snapshot)
  IN [i \in 1..Len(documents) |->
        [specifier |-> documents[i],
         versioned |-> [version |-> snapshot[documents[i]],
                        diagnostics |-> <<Diagnostic(source)>>]]]

\* generate_deno_diagnostics and generate_lint_diagnostics of a run whose
\* token is not cancelled, for documents that are enabled and linted.
generate_deno_diagnostics(snapshot) == RecordsOf(snapshot, "Deno")
generate_lint_diagnostics(snapshot) == RecordsOf(snapshot, "Lint")

\* generate_ts_diagnostics: the specifiers it asks the type checker about,
\* and the batch it builds from the answer (Err gives the default, empty).
enabled_specifiers(snapshot) == DOMAIN snapshot
generate_ts_diagnostics(snapshot, ok) ==
  IF ok THEN RecordsOf(snapshot, "Ts") ELSE << >>

\* Mutant of TsStoreUpdate: the entries of specifiers absent from the batch
\* are kept.
TsStoreUpdateKeeping(diagnostics) ==
  [s \in DOMAIN ts_diagnostics \cup {diagnostics[i].specifier : i \in 1..Len(diagnostics)} |->
     IF \E i \in 1..Len(diagnostics) : diagnostics[i].specifier = s
     THEN diagnostics[CHOOSE i \in 1..Len(diagnostics) : diagnostics[i].specifier = s].versioned
     ELSE ts_diagnostics[s]]

\* TsDiagnosticsStore::update: the map is replaced by the batch, collected
\* record by record (the last record of a specifier is the one kept).
TsStoreUpdate(diagnostics) ==
  [s \in {diagnostics[i].specifier : i \in 1..Len(diagnostics)} |->
     diagnostics[CHOOSE i \in 1..Len(diagnostics) :
                   /\ diagnostics[i].specifier = s
                   /\ \A j \in (i + 1)..Len(diagnostics) : diagnostics[j].specifier # s].versioned]

\* ------------------------------------------------------------ server
Worker == <<0, "worker">>
TaskIds == (1..MaxUpdates) \X DiagnosticSource
Blocking == {"Deno", "Lint"}

NoTask ==
  [pc |-> "none", token |-> 0, batch_index |-> None, snapshot |-> EmptyMap,
   diagnostics |-> << >>, notes |-> << >>, elapsed |-> FALSE, log |-> {}, emitted |-> 0]

\* DiagnosticsServer::new: no channel, empty stores.
ServerNew ==
  /\ channel = None
  /\ batch_counter \in {None, Some(0)}
  /\ token = 0
  /\ worker = "recv"
  /\ tasks = [t \in TaskIds |-> NoTask]
  /\ lock_queue = << >>
  /\ caller = [pc |-> "idle", updates |-> 0, invalidations |-> 0]
  /\ cleared = -1

\* No component has been called directly.
NoCall == [op |-> "none"]

Init == PublisherInit /\ ServerNew /\ call = NoCall

\* ---- the calling thread
\* DiagnosticsServer::start
Start ==
  /\ caller.pc = "idle"
  /\ channel = None
  /\ channel' = Some(<< >>)
  /\ UNCHANGED <<pubvars, batch_counter, token, worker, tasks, lock_queue, caller, cleared>>
  /\ UNCHANGED call

\* Mutant of Sent: the message is enqueued twice.
SentTwice(tx, message) == Some(Append(Append(tx[1], message), message))

\* tx.send(message) on the unbounded channel.
Sent(tx, message) == Some(Append(tx[1], message))

\* The error of an update made before start.
NotStarted == "Err: diagnostics server not started"

\* Mutant of BatchCounterInc: the counter is read, not incremented.
BatchCounterSame(counter) == counter

\* DiagnosticBatchCounter::get, behind DiagnosticsServer::latest_batch_index
latest_batch_index(counter) == counter

\* DiagnosticBatchCounter::inc
BatchCounterInc(counter) == IF counter = None THEN None ELSE Some(counter[1] + 1)

\* The sets of open diagnosable documents a snapshot handed to the server
\* may hold: none, or one document.  (Batches of two records are driven
\* through the publisher by SpecPublisher.)
OpenDocuments == {{}, {"file:///a.ts"}}

\* DiagnosticsServer::update with a snapshot of the documents in `open`.
Update(open) ==
  /\ caller.pc = "idle"
  /\ caller.updates < MaxUpdates
  /\ IF channel # None
     THEN /\ batch_counter' = BatchCounterInc(batch_counter)
          /\ channel' = Sent(channel,
                 [kind |-> "Update",
                  id |-> caller.updates + 1,
                  snapshot |-> Snapshot(open, Some(caller.updates + 1)),
                  batch_index |-> batch_counter'])
          /\ caller' = [caller EXCEPT !.updates = @ + 1]
          /\ call' = [op |-> "update", result |-> "Ok"]
     ELSE /\ call' = [op |-> "update", result |-> NotStarted]
          /\ UNCHANGED <<batch_counter, channel, caller>>
  /\ UNCHANGED <<pubvars, token, worker, tasks, lock_queue, cleared>>

\* DiagnosticsServer::invalidate_all, first statement.
InvalidateAllTs ==
  /\ caller.pc = "idle"
  /\ caller.invalidations < MaxInvalidations
  /\ ts_diagnostics' = EmptyMap
  /\ caller' = [caller EXCEPT !.pc = "invalidate_all", !.invalidations = @ + 1]
  /\ UNCHANGED <<diagnostics_by_specifier, specifiers, client, cancelled, pub, pre_store,
                 ncalls, channel, batch_counter, token, worker, tasks, lock_queue, cleared>>
  /\ UNCHANGED call

\* DiagnosticsServer::invalidate_all, the send and the return.
InvalidateAllSend ==
  /\ caller.pc = "invalidate_all"
  /\ channel' = IF channel # None
                THEN Sent(channel, [kind |-> "Clear"])
                ELSE channel
  /\ caller' = [caller EXCEPT !.pc = "idle"]
  /\ UNCHANGED <<pubvars, batch_counter, token, worker, tasks, lock_queue, cleared>>
  /\ UNCHANGED call

\* ---- the merged store's lock (tokio::sync::Mutex: first come, first served)
Granted(waiter) ==
  IF waiter = Worker
  THEN [phase |-> "clear"]
  ELSE PubLocked(waiter, waiter[2], tasks[waiter].diagnostics, tasks[waiter].token)

Unlock ==
  /\ pub' = IF lock_queue = << >> THEN PubIdle ELSE Granted(Head(lock_queue))
  /\ lock_queue' = IF lock_queue = << >> THEN << >> ELSE Tail(lock_queue)

\* ---- the worker loop
Received(kind) ==
  /\ worker = "recv"
  /\ channel # None
  /\ channel[1] # << >>
  /\ Head(channel[1]).kind = kind
  /\ channel' = Some(Tail(channel[1]))

\* Mutant of NewToken: the old token is dropped without being cancelled.
NewTokenUncancelled ==
  /\ cancelled' = cancelled
  /\ token' = token + 1

\* token.cancel(); token = CancellationToken::new();
NewToken ==
  /\ cancelled' = cancelled \cup {token}
  /\ token' = token + 1

\* A task as spawn leaves it: not yet polled.
Spawned(message) ==
  [NoTask EXCEPT !.pc = "spawned", !.token = token + 1,
                 !.batch_index = message.batch_index, !.snapshot = message.snapshot]

\* ChannelMessage::Update: cancel the previous run, spawn the three tasks.
WorkerUpdate ==
  /\ Received("Update")
  /\ NewToken
  /\ LET message == Head(channel[1])
     IN tasks' = [t \in TaskIds |->
                    IF t[1] = message.id THEN Spawned(message) ELSE tasks[t]]
  /\ UNCHANGED <<diagnostics_by_specifier, specifiers, ts_diagnostics, client, pub,
                 pre_store, ncalls, batch_counter, worker, lock_queue, caller, cleared>>
  /\ UNCHANGED call

\* DiagnosticsPublisher::clear, once it holds the lock.
PublisherClear(store) == EmptyMap

\* Mutant of ClearAcquires: clear does not wait for the lock.
ClearAcquiresAlways == TRUE

\* `self.diagnostics_by_specifier.lock().await` in clear completes at once:
\* no publish call holds the lock.
ClearAcquires == pub.phase = "idle"

\* ChannelMessage::Clear: cancel, new token, clear the publisher (at once
\* when the lock is free, else after the waiters before it).
WorkerClear ==
  /\ Received("Clear")
  /\ NewToken
  /\ IF ClearAcquires
     THEN /\ diagnostics_by_specifier' = PublisherClear(diagnostics_by_specifier)
          /\ cleared' = token
          /\ UNCHANGED <<worker, lock_queue>>
     ELSE /\ lock_queue' = Append(lock_queue, Worker)
          /\ worker' = "clear"
          /\ UNCHANGED <<diagnostics_by_specifier, cleared>>
  /\ UNCHANGED <<specifiers, ts_diagnostics, client, pub, pre_store, ncalls,
                 batch_counter, tasks, caller>>
  /\ UNCHANGED call

\* clear() is granted the lock.
WorkerClearLocked ==
  /\ worker = "clear"
  /\ pub.phase = "clear"
  /\ diagnostics_by_specifier' = PublisherClear(diagnostics_by_specifier)
  /\ cleared' = token - 1
  /\ worker' = "recv"
  /\ Unlock
  /\ UNCHANGED <<specifiers, ts_diagnostics, client, cancelled, pre_store, ncalls,
                 channel, batch_counter, token, tasks, caller>>
  /\ UNCHANGED call

\* ---- the tasks
\* A task's future is complete: what it had captured is dropped.
Ended(task) ==
  [task EXCEPT !.pc = "done", !.token = 0, !.snapshot = EmptyMap,
               !.diagnostics = << >>, !.elapsed = FALSE]

\* The end of a task: the batch notification, when a batch index was given.
Notified(task, messages_len) ==
  Ended([task EXCEPT
           !.notes = IF task.batch_index # None
                     THEN Append(@, [batch_index |-> task.batch_index[1],
                                     messages_len |-> messages_len])
                     ELSE @])

\* The ts task leaves through `_ = token.cancelled() => { return; }`.
DebounceCancelled(task) == Ended(task)

\* Mutant of PreviousDone: the previous handle is not awaited.
PreviousIgnored(t) == TRUE

\* Mutant of PreviousDone: the wait for the previous handle is raced with
\* the cancellation of the previous run.
PreviousDoneOrCancelled(t) ==
  IF t[1] = 1 THEN TRUE
  ELSE \/ tasks[<<t[1] - 1, t[2]>>].pc = "done"
       \/ IsCancelled(tasks[<<t[1] - 1, t[2]>>].token)

\* Mutant of PreviousDone: the previous handle never completes.
PreviousNeverDone(t) == t[1] = 1

\* `previous_handle.await` lets the task pass.
PreviousDone(t) == IF t[1] = 1 THEN TRUE ELSE tasks[<<t[1] - 1, t[2]>>].pc = "done"

\* The state a publish segment of task t leaves behind: the call returns
\* (the task sends its notification and ends, the lock goes to the next
\* waiter) or is suspended in a publish_diagnostics.
Published(t, task, o) ==
  /\ diagnostics_by_specifier' = o.store
  /\ specifiers' = o.state
  /\ client' = o.client
  /\ IF o.pub.phase = "returned"
     THEN /\ tasks' = [tasks EXCEPT ![t] =
                         Notified([task EXCEPT !.emitted = Len(o.pub.sent)],
                                  o.pub.messages_sent)]
          /\ Unlock
     ELSE /\ tasks' = [tasks EXCEPT ![t] = [task EXCEPT !.pc = "publish"]]
          /\ pub' = o.pub
          /\ UNCHANGED lock_queue

\* Mutant of SkipsPublish: the token is not checked after the generator.
SkipsNever(task) == FALSE

\* `if !token.is_cancelled()` after the generator.
SkipsPublish(task) == IsCancelled(task.token)

\* Mutant of TsTaskStore: the batch is not written to the TsDiagnosticsStore
\* ahead of its publication.
TsTaskStoreSkipped(t, diagnostics) == ts_diagnostics

\* `ts_diagnostics_store.update(&diagnostics)`, which the ts task alone
\* calls, ahead of publish.
TsTaskStore(t, diagnostics) ==
  IF t[2] = "Ts" THEN TsStoreUpdate(diagnostics) ELSE ts_diagnostics

\* A task from the return of its generator: publish unless cancelled (the
\* ts task writes the TsDiagnosticsStore first), then notify.
Generated(t, task, diagnostics) ==
  IF SkipsPublish(task)
  THEN /\ tasks' = [tasks EXCEPT ![t] = Notified([task EXCEPT !.log = @ \cup {"skipped"}], 0)]
       /\ UNCHANGED <<diagnostics_by_specifier, specifiers, ts_diagnostics, client, pub,
                      lock_queue>>
  ELSE /\ ts_diagnostics' = TsTaskStore(t, diagnostics)
       /\ IF pub.phase = "idle"
          THEN \E o \in PublishSegment(PubLocked(t, t[2], diagnostics, task.token),
                                       diagnostics_by_specifier, specifiers, client) :
                 Published(t, [task EXCEPT !.log = @ \cup {"publish"}], o)
          ELSE /\ lock_queue' = Append(lock_queue, t)
               /\ tasks' = [tasks EXCEPT ![t] =
                              [task EXCEPT !.pc = "lock", !.diagnostics = diagnostics,
                                           !.log = @ \cup {"publish"}]]
               /\ UNCHANGED <<diagnostics_by_specifier, specifiers, client, pub>>

\* The first poll of the ts task whose previous handle has completed: it
\* starts its debounce, or returns, its token already cancelled.
TaskStart(t) ==
  /\ t[2] = "Ts"
  /\ tasks[t].pc = "spawned"
  /\ PreviousDone(t)
  /\ tasks' = [tasks EXCEPT ![t] =
                 IF IsCancelled(@.token)
                 THEN DebounceCancelled([@ EXCEPT !.log = @ \cup {"early"}])
                 ELSE [@ EXCEPT !.pc = "debounce"]]
  /\ UNCHANGED <<pubvars, channel, batch_counter, token, worker, lock_queue, caller, cleared>>
  /\ UNCHANGED call

\* The 200 ms of the debounce elapse.  A cancellation that reaches the
\* pending select! wakes the task at once, so the timer fires on a token
\* that is not cancelled.
DebounceTimer(t) ==
  /\ t[2] = "Ts"
  /\ tasks[t].pc = "debounce"
  /\ ~tasks[t].elapsed
  /\ ~IsCancelled(tasks[t].token)
  /\ tasks' = [tasks EXCEPT ![t].elapsed = TRUE]
  /\ UNCHANGED <<pubvars, channel, batch_counter, token, worker, lock_queue, caller, cleared>>
  /\ UNCHANGED call

\* select! takes the cancellation branch.
DebounceReturn(t) ==
  /\ t[2] = "Ts"
  /\ tasks[t].pc = "debounce"
  /\ IsCancelled(tasks[t].token)
  /\ tasks' = [tasks EXCEPT ![t] =
                 DebounceCancelled(IF @.elapsed THEN @ ELSE [@ EXCEPT !.log = @ \cup {"early"}])]
  /\ UNCHANGED <<pubvars, channel, batch_counter, token, worker, lock_queue, caller, cleared>>
  /\ UNCHANGED call

\* select! takes the sleep branch: generate_ts_diagnostics runs up to its
\* request to the type checker, or to its end when it has nothing to ask.
DebounceElapsed(t) ==
  /\ t[2] = "Ts"
  /\ tasks[t].pc = "debounce"
  /\ tasks[t].elapsed
  /\ IF enabled_specifiers(tasks[t].snapshot) # {}
     THEN /\ tasks' = [tasks EXCEPT ![t] =
                         [@ EXCEPT !.pc = "request", !.log = @ \cup {"request"}]]
          /\ UNCHANGED <<pubvars, lock_queue>>
     ELSE /\ Generated(t, tasks[t], generate_ts_diagnostics(tasks[t].snapshot, TRUE))
          /\ UNCHANGED <<cancelled, pre_store, ncalls>>
  /\ UNCHANGED <<channel, batch_counter, token, worker, caller, cleared>>
  /\ UNCHANGED call

\* The type checker answers (ok) or fails.
TsResponse(t, ok) ==
  /\ t[2] = "Ts"
  /\ tasks[t].pc = "request"
  /\ Generated(t, IF ok THEN tasks[t] ELSE [tasks[t] EXCEPT !.log = @ \cup {"failed"}],
               generate_ts_diagnostics(tasks[t].snapshot, ok))
  /\ UNCHANGED <<cancelled, pre_store, ncalls, channel, batch_counter, token, worker,
                 caller, cleared>>
  /\ UNCHANGED call

\* A deps or lint task whose previous handle has completed: its generator
\* runs on the blocking pool, reading nothing but the snapshot and the token,
\* and the task is polled again with the result.
BlockingGenerated(t) ==
  /\ t[2] \in Blocking
  /\ tasks[t].pc = "spawned"
  /\ PreviousDone(t)
  /\ Generated(t, tasks[t],
               IF t[2] = "Deno"
               THEN generate_deno_diagnostics(tasks[t].snapshot)
               ELSE generate_lint_diagnostics(tasks[t].snapshot))
  /\ UNCHANGED <<cancelled, pre_store, ncalls, channel, batch_counter, token, worker,
                 caller, cleared>>
  /\ UNCHANGED call

\* publish goes on: it has been granted the lock, or the publish_diagnostics
\* it awaited is done.
TaskPublish(t) ==
  /\ pub.phase \in {"locked", "awaitRecord", "awaitClear"}
  /\ pub.owner = t
  /\ \E o \in PublishSegment(pub, diagnostics_by_specifier, specifiers, client) :
       Published(t, tasks[t], o)
  /\ UNCHANGED <<ts_diagnostics, cancelled, pre_store, ncalls, channel, batch_counter,
                 token, worker, caller, cleared>>
  /\ UNCHANGED call

TaskNext(t) ==
  \/ TaskStart(t)
  \/ DebounceTimer(t)
  \/ DebounceReturn(t)
  \/ DebounceElapsed(t)
  \/ TsResponse(t, TRUE)
  \/ TsResponse(t, FALSE)
  \/ BlockingGenerated(t)
  \/ TaskPublish(t)

Next ==
  \/ Start
  \/ \E open \in OpenDocuments : Update(open)
  \/ InvalidateAllTs
  \/ InvalidateAllSend
  \/ WorkerUpdate
  \/ WorkerClear
  \/ WorkerClearLocked
  \/ \E t \in TaskIds : TaskNext(t)

Spec == Init /\ [][Next]_vars

\* ------------------------------------------------------------ publisher harness
\* The publisher driven directly: publish calls with any source and any
\* batch, one after the other (the lock admits one at a time), each with a
\* token of its own that may be cancelled while the call is suspended.
\* publish hands a record's version on (to DiagnosticsState.update and to
\* the editor) and never reads it: the harness tags every record alike.
HarnessVersions == {Some(1)}

\* The call about to be made repeats the call before it, which returned
\* with its token not cancelled.
Repeats(source, diagnostics) ==
  /\ pub.phase = "returned"
  /\ ~IsCancelled(pub.token)
  /\ call.op = "publish"
  /\ call.source = source
  /\ call.diagnostics = diagnostics

\* The call about to be made follows a call of the same source that was
\* cancelled after it had published some of its records and not the rest.
AfterPartial(source) ==
  /\ pub.phase = "returned"
  /\ IsCancelled(pub.token)
  /\ pub.source = source
  /\ pub.sent # << >>
  /\ pub.records # << >>

CallPublish ==
  /\ pub.phase \in {"idle", "returned"}
  /\ ncalls < MaxCalls
  /\ \E source \in DiagnosticSource : \E diagnostics \in DiagnosticVec(source, HarnessVersions) :
       /\ pub' = PubLocked(<<0, source>>, source, diagnostics, 0)
       /\ call' = [op |-> "publish", source |-> source, diagnostics |-> diagnostics,
                   repeats |-> Repeats(source, diagnostics),
                   after_partial |-> AfterPartial(source),
                   state |-> specifiers, client |-> client]
  /\ ncalls' = ncalls + 1
  /\ pre_store' = diagnostics_by_specifier
  /\ cancelled' = {}
  /\ UNCHANGED <<diagnostics_by_specifier, specifiers, ts_diagnostics, client>>

CancelCall ==
  /\ pub.phase \in {"locked", "awaitRecord", "awaitClear"}
  /\ ~IsCancelled(pub.token)
  /\ cancelled' = cancelled \cup {pub.token}
  /\ UNCHANGED <<diagnostics_by_specifier, specifiers, ts_diagnostics, client, pub,
                 pre_store, ncalls>>
  /\ UNCHANGED call

RunPublish ==
  /\ pub.phase \in {"locked", "awaitRecord", "awaitClear"}
  /\ \E o \in PublishSegment(pub, diagnostics_by_specifier, specifiers, client) :
       /\ pub' = o.pub
       /\ diagnostics_by_specifier' = o.store
       /\ specifiers' = o.state
       /\ client' = o.client
  /\ UNCHANGED <<ts_diagnostics, cancelled, pre_store, ncalls>>
  /\ UNCHANGED call

PublisherNext == (CallPublish \/ CancelCall \/ RunPublish) /\ UNCHANGED srvvars

SpecPublisher == Init /\ [][PublisherNext]_vars

\* ------------------------------------------------------------ claims on the publisher
\* What the editor shows for a specifier, and what the merged store holds.
ClientList(s) == IF s \in DOMAIN client THEN client[s].diagnostics ELSE << >>
StoreUnion(s) ==
  IF s \in DOMAIN diagnostics_by_specifier
  THEN AllSpecifierDiagnostics(diagnostics_by_specifier[s])
  ELSE << >>
StoreEntry(store, s) == IF s \in DOMAIN store THEN Some(store[s]) ELSE None

\* The publishDiagnostics with an empty list that the current call sent for s.
ClearingPublishes(s) ==
  Cardinality({i \in 1..Len(pub.sent) :
                 pub.sent[i].specifier = s /\ pub.sent[i].diagnostics = << >>})

\* The current publish call has returned and its token was never cancelled.
ReturnedUncancelled == pub.phase = "returned" /\ ~IsCancelled(pub.token)

\* C1: whenever no publish call is under way, the list last published for
\* each specifier is the union of the per-source lists the merged store holds
\* for it (empty when the specifier is absent).
C1_PublishedIsUnion ==
  pub.phase \in {"idle", "returned"}
    => \A s \in Specifiers : ClientList(s) = StoreUnion(s)

\* C2 as stated: after an uncancelled publish call of source S, every
\* specifier that held an S entry before the call and has no record in the
\* batch received exactly one clearing publishDiagnostics during the call.
C2_ClearedEverySpecifier ==
  ReturnedUncancelled
    => \A s \in DOMAIN pre_store :
         (pub.source \in DOMAIN pre_store[s] /\ s \notin pub.seen_specifiers)
           => ClearingPublishes(s) = 1

\* C2 amended: after an uncancelled publish call of source S, every
\* specifier that held an S entry and no entry of another source before the
\* call, and has no record in the batch, received exactly one clearing
\* publishDiagnostics during the call.
C2_ClearedLastSource ==
  ReturnedUncancelled
    => \A s \in DOMAIN pre_store :
         (DOMAIN pre_store[s] = {pub.source} /\ s \notin pub.seen_specifiers)
           => ClearingPublishes(s) = 1

C2_Witness ==
  /\ ReturnedUncancelled
  /\ \E s \in DOMAIN pre_store :
       /\ DOMAIN pre_store[s] = {pub.source}
       /\ s \notin pub.seen_specifiers
       /\ ClearingPublishes(s) = 1
       /\ pre_store[s][pub.source].diagnostics # << >>

EndedWithBatchIndex(t) == tasks[t].pc = "done" /\ tasks[t].batch_index # None

\* The DiagnosticBatchNotifications a task has sent are exactly one, for its
\* own batch index.
NotifiedOnce(t) ==
  /\ Len(tasks[t].notes) = 1
  /\ tasks[t].notes[1].batch_index = tasks[t].batch_index[1]

\* C3: every task that has ended, and whose Update carried a batch index,
\* has sent exactly one DiagnosticBatchNotification with that index (a task
\* that has ended without one never sends it).
C3_EveryTaskNotifiesOnce ==
  \A t \in TaskIds : EndedWithBatchIndex(t) => NotifiedOnce(t)

\* C4: a type task that was cancelled before its debounce wait was over has
\* asked the type checker nothing, has neither written the
\* TsDiagnosticsStore nor published, and, its Update carrying a batch
\* index, has delivered its notification with messages_len = 0.
C4_DebouncedTaskSilentAndNotified ==
  \A t \in TaskIds :
    (t[2] = "Ts" /\ "early" \in tasks[t].log /\ EndedWithBatchIndex(t))
      => /\ tasks[t].log \cap {"request", "publish"} = {}
         /\ tasks[t].emitted = 0
         /\ NotifiedOnce(t)
         /\ tasks[t].notes[1].messages_len = 0

\* C5: for each source, while the task of a later Update is past its wait
\* for the previous handle (it runs its generator or publishes), the task
\* of every earlier Update has ended: its publishDiagnostics all came first.
C5_SourceTasksInOrder ==
  \A t \in TaskIds : \A n \in 1..(t[1] - 1) :
    tasks[t].pc \notin {"none", "spawned"} => tasks[<<n, t[2]>>].pc = "done"

C5_Witness ==
  \E source \in DiagnosticSource :
    /\ tasks[<<2, source>>].pc = "publish"
    /\ tasks[<<1, source>>].pc = "done"
    /\ tasks[<<1, source>>].emitted > 0

\* The type tasks whose getDiagnostics request is in flight.
RequestsInFlight == {t \in TaskIds : t[2] = "Ts" /\ tasks[t].pc = "request"}

\* C6: at most one getDiagnostics request to the type checker is in flight.
C6_OneRequestInFlight == Cardinality(RequestsInFlight) <= 1

C6_Witness ==
  /\ tasks[<<2, "Ts">>].pc = "request"
  /\ "request" \in tasks[<<1, "Ts">>].log
  /\ cleared >= 0

\* The step is the return of task t's generator.
GeneratorReturns(t) ==
  \/ t[2] \in Blocking /\ tasks[t].pc = "spawned" /\ tasks'[t].pc # "spawned"
  \/ t[2] = "Ts" /\ tasks[t].pc = "request" /\ tasks'[t].pc # "request"
  \/ /\ t[2] = "Ts" /\ tasks[t].pc = "debounce" /\ tasks[t].elapsed
     /\ enabled_specifiers(tasks[t].snapshot) = {}
     /\ tasks'[t].pc # "debounce"

\* C7: when a task's generator returns and its token is cancelled, the step
\* leaves the merged store, the TsDiagnosticsStore, the DiagnosticsState and
\* what the editor was sent unchanged, and the task ends having published
\* nothing.
C7_CancelledTaskWritesNothing ==
  [][\A t \in TaskIds :
       (GeneratorReturns(t) /\ IsCancelled(tasks[t].token))
         => /\ UNCHANGED <<diagnostics_by_specifier, ts_diagnostics, specifiers, client>>
            /\ tasks'[t].pc = "done"
            /\ tasks'[t].emitted = 0]_vars

C7_Witness ==
  \E t \in TaskIds :
    /\ t[2] = "Ts"
    /\ tasks[t].log = {"request", "skipped"}
    /\ ts_diagnostics # EmptyMap
    /\ diagnostics_by_specifier # EmptyMap

\* Task t takes a step: it is polled, or the publish call it made goes on.
Acts(t) ==
  \/ tasks'[t] # tasks[t]
  \/ pub.phase \in {"locked", "awaitRecord", "awaitClear"} /\ pub.owner = t /\ pub' # pub

\* The step completes the worker's handling of a Clear.
ClearProcessed == cleared' # cleared

\* C9: the step that completes a Clear leaves the token the worker held
\* cancelled, a fresh token in its place and the merged store empty; and no
\* step of a task whose token a completed Clear has cancelled (a task
\* spawned for an Update received before it) changes the merged store or
\* sends the editor a publishDiagnostics.
C9_ClearSilencesEarlierTasks ==
  [][/\ ClearProcessed
          => /\ diagnostics_by_specifier' = EmptyMap
             /\ cleared' \in cancelled'
             /\ token' = cleared' + 1
             /\ token' \notin cancelled'
     /\ \A t \in TaskIds :
          (tasks[t].pc \notin {"none", "done"} /\ tasks[t].token <= cleared /\ Acts(t))
            => UNCHANGED <<diagnostics_by_specifier, client>>]_vars

C9_Witness ==
  /\ cleared >= 1
  /\ diagnostics_by_specifier = EmptyMap
  /\ client # EmptyMap
  /\ \E t \in TaskIds : tasks[t].log = {"skipped"} /\ t[1] = 2

\* C10: the TsDiagnosticsStore is empty when invalidate_all returns, and the
\* merged store is empty when the worker has processed the Clear.
C10_InvalidateAllDropsBothStores ==
  [][/\ (caller.pc = "invalidate_all" /\ caller'.pc = "idle") => ts_diagnostics' = EmptyMap
     /\ ClearProcessed => diagnostics_by_specifier' = EmptyMap]_vars

\* ------------------------------------------------------------ components driven directly
\* The versions a document may have: none (not opened through the editor)
\* or a number.
UnitVersions == {None, Some(1), Some(2)}

\* The variables that no directly driven component touches.
servervars == <<diagnostics_by_specifier, client, cancelled, pub, pre_store, ncalls, srvvars>>

\* ---- TsDiagnosticsStore
\* Mutant of TsStoreGet: the stored version is not compared.
TsStoreGetAnyVersion(store, specifier, document_version) ==
  IF specifier \in DOMAIN store THEN store[specifier].diagnostics ELSE << >>

\* TsDiagnosticsStore::get
TsStoreGet(store, specifier, document_version) ==
  IF specifier \in DOMAIN store
  THEN IF document_version = store[specifier].version
       THEN store[specifier].diagnostics
       ELSE << >>
  ELSE << >>

\* TsDiagnosticsStore::invalidate
TsStoreInvalidate(store, invalidated) == MapRemoveAll(store, invalidated)

\* TsDiagnosticsStore::invalidate_all
TsStoreInvalidateAll(store) == EmptyMap

TsUpdateCall ==
  /\ \E diagnostics \in DiagnosticVec("Ts", UnitVersions) :
       /\ ts_diagnostics' = TsStoreUpdate(diagnostics)
       /\ call' = [op |-> "ts_update", diagnostics |-> diagnostics]
  /\ UNCHANGED <<specifiers, servervars>>

TsInvalidateCall ==
  /\ \E invalidated \in SUBSET Specifiers :
       /\ ts_diagnostics' = TsStoreInvalidate(ts_diagnostics, invalidated)
       /\ call' = [op |-> "ts_invalidate", specifiers |-> invalidated,
                   before |-> ts_diagnostics]
  /\ UNCHANGED <<specifiers, servervars>>

TsInvalidateAllCall ==
  /\ ts_diagnostics' = TsStoreInvalidateAll(ts_diagnostics)
  /\ call' = [op |-> "ts_invalidate_all"]
  /\ UNCHANGED <<specifiers, servervars>>

TsGetCall ==
  /\ \E specifier \in Specifiers : \E document_version \in UnitVersions :
       call' = [op |-> "ts_get", specifier |-> specifier, version |-> document_version,
                result |-> TsStoreGet(ts_diagnostics, specifier, document_version)]
  /\ UNCHANGED <<ts_diagnostics, specifiers, servervars>>

TsStoreNext ==
  \/ TsUpdateCall
  \/ TsInvalidateCall
  \/ TsInvalidateAllCall
  \/ TsGetCall

SpecTsStore == Init /\ [][TsStoreNext]_vars

\* The store holds an entry for the specifier of the last get, at the
\* version that get asked for.
GetMatchesStored ==
  /\ call.specifier \in DOMAIN ts_diagnostics
  /\ ts_diagnostics[call.specifier].version = call.version

\* C11: TsDiagnosticsStore.get(s, v) returns a non-empty list only if the
\* store holds an entry for s whose version equals v (an absent version
\* equal to an absent version only); otherwise it returns the empty list,
\* and when it matches it returns the stored list.
C11_GetOnlyAtStoredVersion ==
  call.op = "ts_get"
    => /\ call.result # << >> => GetMatchesStored
       /\ ~GetMatchesStored => call.result = << >>
       /\ GetMatchesStored => call.result = ts_diagnostics[call.specifier].diagnostics

C11_Witness ==
  /\ call.op = "ts_get"
  /\ call.result # << >>
  /\ call.version = None
  /\ \E s \in DOMAIN ts_diagnostics : ts_diagnostics[s].version = Some(2)

\* ---- DiagnosticsState
\* The diagnostics handed to DiagnosticsState.update: the two codes it keeps,
\* another string code and a numeric code, in lists of none, one, or two
\* different ones of which the second is one it keeps.
UnitDiagnostic ==
  {[source |-> "deno", codeKind |-> "String", code |-> "no-cache"],
   [source |-> "deno", codeKind |-> "String", code |-> "no-cache-npm"],
   [source |-> "deno", codeKind |-> "String", code |-> "no-local"],
   [source |-> "deno-ts", codeKind |-> "Number", code |-> "2322"]}
UnitDiagnostics ==
  {<< >>} \cup {<<d>> : d \in UnitDiagnostic}
  \cup {y \in UnitDiagnostic \X UnitDiagnostic : y[1] # y[2] /\ y[2].code \in {"no-cache", "no-cache-npm"}}

\* DiagnosticsState::clear
StateClear(state, specifier) == MapRemove(state, specifier)

\* DiagnosticsState::has_no_cache_diagnostics
has_no_cache_diagnostics(state, specifier) ==
  IF specifier \in DOMAIN state
  THEN state[specifier].no_cache_diagnostics # << >>
  ELSE FALSE

\* The record DiagnosticsState holds for a specifier, if any.
StateEntry(state, specifier) ==
  IF specifier \in DOMAIN state THEN Some(state[specifier]) ELSE None

\* The highest version DiagnosticsState has stored for each specifier since
\* the specifier was last cleared, if it has stored one.
HighestStored ==
  IF call.op \in {"state_update", "state_clear"}
  THEN call.highest
  ELSE [s \in Specifiers |-> None]

\* The higher of two versions, an absent one counting for nothing.
Higher(a, b) ==
  IF a = None THEN b
  ELSE IF b = None THEN a
  ELSE IF a[1] >= b[1] THEN a ELSE b

StateUpdateCall ==
  /\ \E specifier \in Specifiers : \E version \in UnitVersions :
     \E diagnostics \in UnitDiagnostics :
       /\ specifiers' = StateUpdate(specifiers, specifier, version, diagnostics)
       /\ call' = [op |-> "state_update", specifier |-> specifier, version |-> version,
                   diagnostics |-> diagnostics,
                   before |-> StateEntry(specifiers, specifier),
                   highest |-> [HighestStored EXCEPT
                                  ![specifier] = Higher(@, specifiers'[specifier].version)]]
  /\ UNCHANGED <<ts_diagnostics, servervars>>

StateClearCall ==
  /\ \E specifier \in Specifiers :
       /\ specifiers' = StateClear(specifiers, specifier)
       /\ call' = [op |-> "state_clear", specifier |-> specifier,
                   before |-> StateEntry(specifiers, specifier),
                   highest |-> [HighestStored EXCEPT ![specifier] = None]]
  /\ UNCHANGED <<ts_diagnostics, servervars>>

StateNext ==
  \/ StateUpdateCall
  \/ StateClearCall

SpecState == Init /\ [][StateNext]_vars

\* The last update carried a version lower than the version stored before it.
OlderThanStored ==
  /\ call.op = "state_update"
  /\ call.version # None
  /\ call.before # None
  /\ call.before[1].version # None
  /\ call.before[1].version[1] > call.version[1]

\* C12: DiagnosticsState.update(s, v', diags) with a record of version
\* v > v' stored for s leaves that record (its version and its
\* noCacheDiagnostics) as it was.
C12_OlderUpdateChangesNothing ==
  OlderThanStored => StateEntry(specifiers, call.specifier) = call.before

C12_Witness ==
  /\ OlderThanStored
  /\ call.before[1].no_cache_diagnostics = << >>
  /\ \E i \in 1..Len(call.diagnostics) : call.diagnostics[i].code = "no-cache"

\* The sub-list of the last update's diagnostics whose code is the string
\* "no-cache" or "no-cache-npm".
NoCacheSubList ==
  SelectSeq(call.diagnostics,
            LAMBDA d : d.codeKind = "String" /\ d.code \in {"no-cache", "no-cache-npm"})

\* C18: every diagnostic in a record's noCacheDiagnostics has the string
\* code "no-cache" or "no-cache-npm"; after an update that the version rule
\* did not reject the list is the sub-list of the update's diagnostics with
\* those codes, and has_no_cache_diagnostics is true iff it is not empty.
C18_NoCacheDiagnosticsAreTheSubList ==
  /\ \A s \in DOMAIN specifiers :
       \A i \in 1..Len(specifiers[s].no_cache_diagnostics) :
         /\ specifiers[s].no_cache_diagnostics[i].codeKind = "String"
         /\ specifiers[s].no_cache_diagnostics[i].code \in {"no-cache", "no-cache-npm"}
  /\ (call.op = "state_update" /\ ~OlderThanStored)
       => /\ specifiers[call.specifier].no_cache_diagnostics = NoCacheSubList
          /\ has_no_cache_diagnostics(specifiers, call.specifier) <=> NoCacheSubList # << >>

C18_Witness ==
  /\ call.op = "state_update"
  /\ ~OlderThanStored
  /\ Len(call.diagnostics) = 2
  /\ Len(NoCacheSubList) = 1
  /\ NoCacheSubList[1].code = "no-cache-npm"
  /\ has_no_cache_diagnostics(specifiers, call.specifier)
  /\ call.before # None

\* ------------------------------------------------------------ more claims on the server
\* The type diagnostics the merged store holds, by specifier.
TsSlots ==
  [s \in {x \in DOMAIN diagnostics_by_specifier : "Ts" \in DOMAIN diagnostics_by_specifier[x]}
     |-> diagnostics_by_specifier[s]["Ts"]]

\* The type diagnostics the editor shows for a specifier.
TsShown(s) == SelectSeq(ClientList(s), LAMBDA d : d.source = as_lsp_source("Ts"))

\* C13: no step of a type task whose request to the type checker failed,
\* and whose token is not cancelled, changes the type diagnostics held in
\* the merged store or shown in the editor (its empty batch leaves them in
\* place).
C13_FailedBatchKeepsTypeDiagnostics ==
  [][\A t \in TaskIds :
       (t[2] = "Ts" /\ "failed" \in tasks'[t].log /\ Acts(t) /\ ~IsCancelled(tasks[t].token))
         => /\ TsSlots' = TsSlots
            /\ \A s \in Specifiers : TsShown(s)' = TsShown(s)]_vars

\* The step is a call of DiagnosticsServer::update.
UpdateCalled ==
  /\ call'.op = "update"
  /\ call' # call \/ caller'.updates # caller.updates

\* C14: an update called before start returns the error "diagnostics server
\* not started" and enqueues nothing; an update called after start returns
\* Ok and leaves exactly one more message, an Update, at the end of the
\* channel.
C14_UpdateNeedsStart ==
  [][UpdateCalled
       => IF channel = None
          THEN /\ call'.result = "Err: diagnostics server not started"
               /\ channel' = None
          ELSE /\ call'.result = "Ok"
               /\ Len(channel'[1]) = Len(channel[1]) + 1
               /\ SubSeq(channel'[1], 1, Len(channel[1])) = channel[1]
               /\ channel'[1][Len(channel'[1])].kind = "Update"]_vars

C14_Witness ==
  /\ call.op = "update"
  /\ call.result = "Ok"
  /\ Len(channel[1]) = 2
  /\ channel[1][1].kind = "Clear"

\* ------------------------------------------------------------ more claims on the publisher
\* The list the editor had last been sent for s when the current call began.
ListBeforeCall(s) ==
  IF s \in DOMAIN call.client THEN call.client[s].diagnostics ELSE << >>

\* C15: when an uncancelled publish call with the source and the records of
\* the uncancelled call before it has returned, the merged store, the
\* DiagnosticsState and the list last sent to the editor for each specifier
\* are what they were when it began.
C15_PublishTwiceIsPublishOnce ==
  (ReturnedUncancelled /\ call.repeats)
    => /\ diagnostics_by_specifier = pre_store
       /\ specifiers = call.state
       /\ \A s \in Specifiers : ClientList(s) = ListBeforeCall(s)

C15_Witness ==
  /\ ReturnedUncancelled
  /\ call.repeats
  /\ ncalls = 3
  /\ Len(pub.sent) = 2
  /\ \E s \in DOMAIN diagnostics_by_specifier : Cardinality(DOMAIN diagnostics_by_specifier[s]) = 2

\* ---- DenoDiagnostic::is_fixable and DenoDiagnostic::get_code_action
\* The `data` of a diagnostic: a JSON object, reduced to its fields and
\* whether each holds a URL or some other string.
DataPayloads ==
  {{},
   {<<"specifier", "url">>},
   {<<"specifier", "str">>},
   {<<"redirect", "url">>},
   {<<"to", "url">>, <<"message", "str">>},
   {<<"from", "str">>, <<"to", "str">>}}

\* The fields each DiagnosticData struct needs.
DiagnosticDataSpecifier == {<<"specifier", "url">>}
DiagnosticDataStrSpecifier == {<<"specifier", "str">>}
DiagnosticDataRedirect == {<<"redirect", "url">>}
DiagnosticDataNoLocal == {<<"to", "url">>, <<"message", "str">>}
DiagnosticDataImportMapRemap == {<<"from", "str">>, <<"to", "str">>}

\* serde_json::from_value(data) into a struct succeeds: every field of the
\* struct is there (a URL is a string; fields the struct does not name are
\* ignored).
Deserializes(struct, payload) ==
  \A need \in struct :
    \E field \in payload :
      /\ field[1] = need[1]
      /\ field[2] = need[2] \/ need[2] = "str"

\* The codes of the diagnostics handed in: none, a number, and strings, the
\* last of which has no code action.
FixCodes ==
  {[codeKind |-> "None", code |-> ""], [codeKind |-> "Number", code |-> "2322"]}
  \cup [codeKind : {"String"},
        code : {"import-map-remap", "no-attribute-type", "no-cache", "no-cache-npm",
                "no-local", "redirect", "import-node-prefix-missing", "resolver-error"}]

FixDiagnostics ==
  {[codeKind |-> c.codeKind, code |-> c.code, data |-> data] :
     c \in FixCodes, data \in {None} \cup {Some(payload) : payload \in DataPayloads}}

\* `.ok_or_else(..)?` then `serde_json::from_value(data)?`
DataInto(struct, diagnostic) ==
  IF diagnostic.data = None THEN "Err: Diagnostic is missing data"
  ELSE IF Deserializes(struct, diagnostic.data[1]) THEN "Ok"
  ELSE "Err: invalid data"

\* DenoDiagnostic::get_code_action, reduced to Ok or the error.
get_code_action(specifier, diagnostic) ==
  IF diagnostic.codeKind = "String"
  THEN CASE diagnostic.code = "import-map-remap" ->
              DataInto(DiagnosticDataImportMapRemap, diagnostic)
         [] diagnostic.code = "no-attribute-type" -> "Ok"
         [] diagnostic.code \in {"no-cache", "no-cache-npm"} ->
              DataInto(DiagnosticDataSpecifier, diagnostic)
         [] diagnostic.code = "no-local" ->
              DataInto(DiagnosticDataNoLocal, diagnostic)
         [] diagnostic.code = "redirect" ->
              DataInto(DiagnosticDataRedirect, diagnostic)
         [] diagnostic.code = "import-node-prefix-missing" ->
              DataInto(DiagnosticDataStrSpecifier, diagnostic)
         [] OTHER -> "Err: Unsupported diagnostic code"
  ELSE "Err: Unsupported diagnostic code"

\* DenoDiagnostic::is_fixable
is_fixable(diagnostic) ==
  IF diagnostic.codeKind = "String"
  THEN CASE diagnostic.code \in {"import-map-remap", "no-cache", "no-cache-npm",
                                 "no-attribute-type", "redirect",
                                 "import-node-prefix-missing"} -> TRUE
         [] diagnostic.code = "no-local" -> diagnostic.data # None
         [] OTHER -> FALSE
  ELSE FALSE

\* Both functions are applied to one diagnostic.
FixCall ==
  /\ \E specifier \in Specifiers : \E diagnostic \in FixDiagnostics :
       call' = [op |-> "code_action", specifier |-> specifier, diagnostic |-> diagnostic,
                is_fixable |-> is_fixable(diagnostic),
                result |-> get_code_action(specifier, diagnostic)]
  /\ UNCHANGED <<ts_diagnostics, specifiers, servervars>>

SpecFix == Init /\ [][FixCall]_vars

\* C16: is_fixable(d) is true iff get_code_action(specifier, d) returns Ok.
C16_FixableIffCodeAction ==
  call.op = "code_action" => (call.is_fixable <=> call.result = "Ok")

\* C17: after a publish call that ran to completion, every specifier key of
\* the merged store has a source whose diagnostics list is not empty.
C17_NoKeyWithAllListsEmpty ==
  ReturnedUncancelled
    => \A s \in DOMAIN diagnostics_by_specifier :
         \E source \in DOMAIN diagnostics_by_specifier[s] :
           diagnostics_by_specifier[s][source].diagnostics # << >>

\* The Update messages still in the channel, in the order they will be dequeued.
UpdatesInChannel ==
  IF channel = None THEN << >>
  ELSE SelectSeq(channel[1], LAMBDA message : message.kind = "Update")

\* The batch index that the n-th successful update call was given: carried
\* by its message, then by the tasks spawned for it.
IssuedIndexOf(n) ==
  IF tasks[<<n, "Ts">>].pc # "none"
  THEN tasks[<<n, "Ts">>].batch_index
  ELSE UpdatesInChannel[CHOOSE i \in 1..Len(UpdatesInChannel) :
                          UpdatesInChannel[i].id = n].batch_index

\* C19: with the batch counter enabled, the index given to each successful
\* update call is the index of the one before it plus one, the Update
\* messages reach the worker in the order of their indices, the three tasks
\* of an Update carry its index, and latest_batch_index returns the index
\* of the update issued last.
C19_BatchIndicesIncrease ==
  batch_counter # None
    => /\ \A n \in 2..caller.updates :
            IssuedIndexOf(n)[1] = IssuedIndexOf(n - 1)[1] + 1
       /\ \A n \in 1..caller.updates : \A m \in 1..caller.updates :
            n < m => IssuedIndexOf(n)[1] < IssuedIndexOf(m)[1]
       /\ \A i \in 1..Len(UpdatesInChannel) : \A j \in 1..Len(UpdatesInChannel) :
            i < j => UpdatesInChannel[i].batch_index[1] < UpdatesInChannel[j].batch_index[1]
       /\ \A t \in TaskIds : \A i \in 1..Len(UpdatesInChannel) :
            tasks[t].pc # "none"
              => tasks[t].batch_index[1] < UpdatesInChannel[i].batch_index[1]
       /\ \A t \in TaskIds :
            tasks[t].pc # "none" => tasks[t].batch_index = IssuedIndexOf(t[1])
       /\ caller.updates > 0
            => latest_batch_index(batch_counter) = IssuedIndexOf(caller.updates)

C19_Witness ==
  /\ batch_counter = Some(2)
  /\ tasks[<<1, "Lint">>].batch_index = Some(1)
  /\ Len(UpdatesInChannel) = 1
  /\ UpdatesInChannel[1].batch_index = Some(2)

\* ---- the generators, with the configuration of each document
\* An open diagnosable document as the generators see it: its version, and
\* what the configuration says of its specifier.
DocumentConfigs ==
  [enabled : BOOLEAN, lint : BOOLEAN, in_npm_package : BOOLEAN, matches : BOOLEAN]

\* The open diagnosable documents of a snapshot, in the order they are
\* enumerated.
SnapshotDocuments ==
  LET document(s, c) ==
        [specifier |-> s, version |-> IF s = SpecifierOrder[1] THEN Some(1) ELSE Some(2),
         enabled |-> c.enabled, lint |-> c.lint,
         in_npm_package |-> c.in_npm_package, matches |-> c.matches]
  IN {<< >>}
     \cup {<<document(s, c)>> : s \in Specifiers, c \in DocumentConfigs}
     \cup {<<document(SpecifierOrder[1], c), document(SpecifierOrder[2], d)>> :
             c \in DocumentConfigs, d \in DocumentConfigs}

\* The documents with their place in the enumeration.
Enumerated(documents) ==
  [i \in 1..Len(documents) |-> [index |-> i, document |-> documents[i]]]

\* Mutant of generate_document_lint_diagnostics: the enablement of the
\* specifier is not looked at.
LintWhateverEnabled(document) ==
  IF ~document.matches THEN << >> ELSE <<Diagnostic("Lint")>>

\* generate_document_lint_diagnostics, for a source with one finding.
generate_document_lint_diagnostics(document) ==
  IF ~document.enabled THEN << >>
  ELSE IF ~document.matches THEN << >>
  ELSE <<Diagnostic("Lint")>>

\* A record for a document.
RecordFor(document, diagnostics) ==
  [specifier |-> document.specifier,
   versioned |-> [version |-> document.version, diagnostics |-> diagnostics]]

\* Mutant of LintGenerator: no document is passed by.
LintGeneratorEveryDocument(documents, cancelled_at) ==
  LET kept == SelectSeq(Enumerated(documents), LAMBDA e : e.index < cancelled_at)
  IN [i \in 1..Len(kept) |->
        RecordFor(kept[i].document, generate_document_lint_diagnostics(kept[i].document))]

\* generate_lint_diagnostics of a run that finds its token cancelled from
\* the document at place `cancelled_at` on (beyond the last: never).
LintGenerator(documents, cancelled_at) ==
  LET kept == SelectSeq(Enumerated(documents),
                        LAMBDA e : /\ e.document.lint
                                   /\ e.index < cancelled_at
                                   /\ ~e.document.in_npm_package)
  IN [i \in 1..Len(kept) |->
        RecordFor(kept[i].document, generate_document_lint_diagnostics(kept[i].document))]

\* generate_deno_diagnostics of such a run, each enabled document having
\* one dependency with a finding.
DenoGenerator(documents, cancelled_at) ==
  LET kept == SelectSeq(Enumerated(documents), LAMBDA e : e.index < cancelled_at)
  IN [i \in 1..Len(kept) |->
        RecordFor(kept[i].document,
                  IF kept[i].document.enabled THEN <<Diagnostic("Deno")>> ELSE << >>)]

\* The answers the type checker may give: an error, or diagnostics for
\* some of the snapshot's documents.
TsAnswers(documents) ==
  {[ok |-> FALSE, answered |-> {}]}
  \cup {[ok |-> TRUE, answered |-> answered] :
          answered \in SUBSET {documents[i].specifier : i \in 1..Len(documents)}}

\* Mutant of TsGenerator: enablement is not looked at again when the
\* answer is turned into records.
TsGeneratorTrustsAnswer(documents, answer) ==
  LET enabled == SelectSeq(documents, LAMBDA d : d.enabled)
      disabled == SelectSeq(documents, LAMBDA d : ~d.enabled)
      requested == IF enabled # << >>
                   THEN Some({enabled[i].specifier : i \in 1..Len(enabled)})
                   ELSE None
      answered == IF requested = None THEN << >>
                  ELSE SelectSeq(documents, LAMBDA d : d.specifier \in answer.answered)
      from_answer == [i \in 1..Len(answered) |-> RecordFor(answered[i], <<Diagnostic("Ts")>>)]
      from_disabled == [i \in 1..Len(disabled) |-> RecordFor(disabled[i], << >>)]
  IN IF requested # None /\ ~answer.ok
     THEN [ok |-> FALSE, requested |-> requested, records |-> << >>]
     ELSE [ok |-> TRUE, requested |-> requested, records |-> from_answer \o from_disabled]

\* generate_ts_diagnostics: the request, if one is made, and the result.
TsGenerator(documents, answer) ==
  LET enabled == SelectSeq(documents, LAMBDA d : d.enabled)
      disabled == SelectSeq(documents, LAMBDA d : ~d.enabled)
      requested == IF enabled # << >>
                   THEN Some({enabled[i].specifier : i \in 1..Len(enabled)})
                   ELSE None
      answered == IF requested = None THEN << >>
                  ELSE SelectSeq(documents, LAMBDA d : d.specifier \in answer.answered)
      from_answer == [i \in 1..Len(answered) |->
                        RecordFor(answered[i],
                                  IF answered[i].enabled THEN <<Diagnostic("Ts")>> ELSE << >>)]
      from_disabled == [i \in 1..Len(disabled) |-> RecordFor(disabled[i], << >>)]
  IN IF requested # None /\ ~answer.ok
     THEN [ok |-> FALSE, requested |-> requested, records |-> << >>]
     ELSE [ok |-> TRUE, requested |-> requested, records |-> from_answer \o from_disabled]

LintCall ==
  /\ call = NoCall
  /\ \E documents \in SnapshotDocuments : \E cancelled_at \in 1..(Len(documents) + 1) :
       call' = [op |-> "generate", source |-> "Lint", documents |-> documents,
                cancelled |-> cancelled_at <= Len(documents), ok |-> TRUE,
                requested |-> None, answered |-> {},
                records |-> LintGenerator(documents, cancelled_at)]
  /\ UNCHANGED <<ts_diagnostics, specifiers, servervars>>

DenoCall ==
  /\ call = NoCall
  /\ \E documents \in SnapshotDocuments : \E cancelled_at \in 1..(Len(documents) + 1) :
       call' = [op |-> "generate", source |-> "Deno", documents |-> documents,
                cancelled |-> cancelled_at <= Len(documents), ok |-> TRUE,
                requested |-> None, answered |-> {},
                records |-> DenoGenerator(documents, cancelled_at)]
  /\ UNCHANGED <<ts_diagnostics, specifiers, servervars>>

TsCall ==
  /\ call = NoCall
  /\ \E documents \in SnapshotDocuments : \E answer \in TsAnswers(documents) :
       LET result == TsGenerator(documents, answer)
       IN call' = [op |-> "generate", source |-> "Ts", documents |-> documents,
                   cancelled |-> FALSE, ok |-> result.ok,
                   requested |-> result.requested, answered |-> answer.answered,
                   records |-> result.records]
  /\ UNCHANGED <<ts_diagnostics, specifiers, servervars>>

\* The generators are functions of the snapshot, the configuration and the
\* checker's answer: a behaviour applies one of them once.
GeneratorsNext ==
  \/ LintCall
  \/ DenoCall
  \/ TsCall

SpecGenerators == Init /\ [][GeneratorsNext]_vars

\* A generator has been applied to a snapshot.
GeneratorApplied == call.op = "generate"

\* The document is disabled by the configuration, the lint setting left on.
DisabledLintOn(document) == ~document.enabled /\ document.lint

\* The generator's records for the document.
RecordsFor(document) ==
  SelectSeq(call.records, LAMBDA r : r.specifier = document.specifier)

\* The generator emitted exactly one record for the document, with an
\* empty list, and the type checker was not asked about the document.
OneEmptyRecordUnqueried(document) ==
  /\ Len(RecordsFor(document)) = 1
  /\ RecordsFor(document)[1].versioned.diagnostics = << >>
  /\ call.requested # None => document.specifier \notin call.requested[1]

\* The run was not cancelled, the document lies outside any npm package,
\* and the type checker, if asked, answered without error and without an
\* entry for the document.
UndisturbedRun(document) ==
  /\ ~call.cancelled
  /\ ~document.in_npm_package
  /\ call.requested # None => call.ok /\ document.specifier \notin call.answered

LintRan == GeneratorApplied /\ call.source = "Lint" /\ ~call.cancelled

\* The lint generator looks at the document: its lint setting is on and it
\* lies outside any npm package.
Linted(document) == document.lint /\ ~document.in_npm_package

\* Every record of the call carries the version of its document, and the
\* list of a document that is disabled or left out by the file patterns is
\* empty.
RecordsTagged ==
  \A i \in 1..Len(call.documents) : \A j \in 1..Len(RecordsFor(call.documents[i])) :
    /\ RecordsFor(call.documents[i])[j].versioned.version = call.documents[i].version
    /\ ~call.documents[i].enabled \/ ~call.documents[i].matches
         => RecordsFor(call.documents[i])[j].versioned.diagnostics = << >>

\* C23 as stated: an uncancelled run of the lint generator emits exactly
\* one record for every open diagnosable document, tagged with the
\* document's version, whatever its lint setting, enablement, npm-package
\* membership or file patterns.
C23_LintRecordForEveryDocument ==
  LintRan =>
    /\ \A i \in 1..Len(call.documents) : Len(RecordsFor(call.documents[i])) = 1
    /\ RecordsTagged

\* C23 amended: an uncancelled run of the lint generator emits exactly one
\* record, tagged with the document's version, for every open diagnosable
\* document whose lint setting is on and that lies outside any npm package,
\* and no record for the other documents; a disabled document and one the
\* file patterns leave out get an empty list.
C23_LintRecordForEveryLintedDocument ==
  LintRan =>
    /\ \A i \in 1..Len(call.documents) :
         Len(RecordsFor(call.documents[i])) = IF Linted(call.documents[i]) THEN 1 ELSE 0
    /\ RecordsTagged

\* C23 witness: an uncancelled run over two documents has emitted a record
\* with findings for one and an empty record for the other, which the file
\* patterns leave out.
C23_Witness ==
  /\ LintRan
  /\ Len(call.documents) = 2
  /\ Len(call.records) = 2
  /\ call.records[1].versioned.diagnostics # << >>
  /\ ~call.documents[2].matches
  /\ call.records[2].versioned = [version |-> Some(2), diagnostics |-> << >>]

\* The type generator has returned.
TsRan == GeneratorApplied /\ call.source = "Ts"

\* The enabled open diagnosable specifiers of the call's snapshot.
EnabledSpecifiers ==
  {call.documents[i].specifier : i \in {j \in 1..Len(call.documents) : call.documents[j].enabled}}

\* The checker was asked once about exactly the enabled specifiers, and not
\* at all when none is enabled.
RequestedEnabled ==
  call.requested = IF EnabledSpecifiers = {} THEN None ELSE Some(EnabledSpecifiers)

\* Every disabled document has a record, and each of its records, the one
\* made from the checker's answer included, holds an empty list.
DisabledRecordsEmpty ==
  \A i \in 1..Len(call.documents) :
    ~call.documents[i].enabled =>
      /\ RecordsFor(call.documents[i]) # << >>
      /\ \A j \in 1..Len(RecordsFor(call.documents[i])) :
           RecordsFor(call.documents[i])[j].versioned.diagnostics = << >>

StoreIsBatch(diagnostics) ==
  /\ DOMAIN ts_diagnostics = {diagnostics[i].specifier : i \in 1..Len(diagnostics)}
  /\ \A i \in 1..Len(diagnostics) :
       ts_diagnostics[diagnostics[i].specifier] = diagnostics[i].versioned

\* The store holds the entries it held before the invalidation, the listed
\* ones excepted.
StoreIsRest(before, invalidated) ==
  /\ DOMAIN ts_diagnostics = DOMAIN before \ invalidated
  /\ \A s \in DOMAIN ts_diagnostics : ts_diagnostics[s] = before[s]

\* C24: after the type task's write of its batch the TsDiagnosticsStore
\* holds exactly the batch's records and no entry for a specifier absent
\* from the batch; invalidate(specifiers) removes exactly the listed
\* entries and leaves the others unchanged.
C24_StoreIsBatchInvalidateRemovesListed ==
  /\ call.op = "ts_update" => StoreIsBatch(call.diagnostics)
  /\ call.op = "ts_invalidate" => StoreIsRest(call.before, call.specifiers)

\* C24 witness: a store of two entries, written by a batch, has lost the
\* one entry an invalidation listed.
C24_Witness ==
  /\ call.op = "ts_invalidate"
  /\ DOMAIN call.before = Specifiers
  /\ Cardinality(call.specifiers) = 1
  /\ Cardinality(DOMAIN ts_diagnostics) = 1

\* ---- claims on the order of the type task's writes
\* The step takes task t into the body of `if !token.is_cancelled()`.
TakesPublishBranch(t) == "publish" \notin tasks[t].log /\ "publish" \in tasks'[t].log

\* The batch the type task holds when it takes that step.
BatchOf(t) == generate_ts_diagnostics(tasks[t].snapshot, "failed" \notin tasks'[t].log)

\* The step is one of task t and sends the editor a publishDiagnostics that
\* changes what it shows.
ReachesEditor(t) == Acts(t) /\ client' # client

\* C25: the step in which a type task enters its publication leaves the
\* TsDiagnosticsStore holding exactly the task's batch, and a step of a type
\* task that sends the editor a publishDiagnostics is that step or a later
\* one: nothing of a batch reaches the editor before the batch is written
\* to the TsDiagnosticsStore.
C25_TsStoreWrittenBeforePublication ==
  [][\A t \in TaskIds :
       t[2] = "Ts"
         => /\ TakesPublishBranch(t) => ts_diagnostics' = TsStoreUpdate(BatchOf(t))
            /\ ReachesEditor(t) => "publish" \in tasks'[t].log]_vars

\* C25 witness: a type task is suspended in the first publishDiagnostics of
\* its batch, which the TsDiagnosticsStore holds and the editor shows.
C25_Witness ==
  /\ pub.phase = "awaitRecord"
  /\ pub.owner[2] = "Ts"
  /\ DOMAIN ts_diagnostics = {"file:///a.ts"}
  /\ ts_diagnostics["file:///a.ts"].diagnostics = <<Diagnostic("Ts")>>
  /\ \E s \in DOMAIN client : TsShown(s) # << >>

\* ---- the publisher driven with records of differing versions
\* Batches for one document, of no record or of one record at any version.
VersionedBatches(source) ==
  {<< >>}
  \cup {<<r>> : r \in {x \in DiagnosticRecord(source, UnitVersions) :
                         x.specifier = SpecifierOrder[1]}}

CallPublishVersioned ==
  /\ pub.phase \in {"idle", "returned"}
  /\ ncalls < MaxCalls
  /\ \E source \in DiagnosticSource : \E diagnostics \in VersionedBatches(source) :
       /\ pub' = PubLocked(<<0, source>>, source, diagnostics, 0)
       /\ call' = [op |-> "publish", source |-> source, diagnostics |-> diagnostics,
                   repeats |-> Repeats(source, diagnostics),
                   after_partial |-> AfterPartial(source),
                   state |-> specifiers, client |-> client]
  /\ ncalls' = ncalls + 1
  /\ pre_store' = diagnostics_by_specifier
  /\ cancelled' = {}
  /\ UNCHANGED <<diagnostics_by_specifier, specifiers, ts_diagnostics, client>>

VersionedNext == (CallPublishVersioned \/ CancelCall \/ RunPublish) /\ UNCHANGED srvvars

SpecVersions == Init /\ [][VersionedNext]_vars

\* The call is suspended in the publishDiagnostics of its first record.
FirstRecordSent ==
  /\ call.op = "publish"
  /\ pub.phase = "awaitRecord"
  /\ Len(pub.sent) = 1

\* The list the merged store held for the specifier and the source when the
\* call was made, whatever version it was pinned to.
HeldBefore(s, source) ==
  IF s \in DOMAIN pre_store /\ source \in DOMAIN pre_store[s]
  THEN pre_store[s][source].diagnostics
  ELSE << >>

\* The part of a published list that carries the source's label.
PartOf(diagnostics, source) ==
  SelectSeq(diagnostics, LAMBDA d : d.source = as_lsp_source(source))

\* C26: when a record for (S, s, v) is published, the emitted list is made
\* of the record's list for S and, for every other source, the list held
\* for s whatever version it is pinned to; the version sent to the editor
\* is v, and DiagnosticsState.update is called with s, v and that list.
C26_UnionAcrossVersions ==
  FirstRecordSent =>
    LET record == call.diagnostics[1]
        message == pub.sent[1]
    IN /\ message.specifier = record.specifier
       /\ message.version = record.versioned.version
       /\ \A source \in DiagnosticSource :
            PartOf(message.diagnostics, source) =
              IF source = call.source THEN record.versioned.diagnostics
              ELSE HeldBefore(record.specifier, source)
       /\ client[record.specifier] =
            [diagnostics |-> message.diagnostics, version |-> record.versioned.version]
       /\ specifiers = StateUpdate(call.state, record.specifier, record.versioned.version,
                                   message.diagnostics)

\* C26 witness: a record at version 1 has been published with the list
\* another source holds at version 2.
C26_Witness ==
  /\ FirstRecordSent
  /\ call.diagnostics[1].versioned = [version |-> Some(1), diagnostics |-> <<Diagnostic(call.source)>>]
  /\ Len(pub.sent[1].diagnostics) = 2
  /\ \E source \in DiagnosticSource \ {call.source} :
       /\ HeldBefore(SpecifierOrder[1], source) # << >>
       /\ pre_store[SpecifierOrder[1]][source].version = Some(2)

LockHeldBy(t) == pub.phase \in {"locked", "awaitRecord", "awaitClear"} /\ pub.owner = t

\* The step writes the merged store or sends the editor a publishDiagnostics
\* that changes what it shows.
Touches == diagnostics_by_specifier' # diagnostics_by_specifier \/ client' # client

\* C28: while a publish call holds the lock, from before its first write to
\* its return, a step that writes the merged store or publishes is a step of
\* that call alone, no other task being polled and the worker's clear not
\* running; and while the worker's clear holds the lock no task takes part
\* in the step that writes the store.
C28_BatchesDoNotInterleave ==
  [][/\ \A t \in TaskIds :
          (LockHeldBy(t) /\ Touches)
            => /\ pub' # pub
               /\ \A u \in TaskIds \ {t} : tasks'[u] = tasks[u]
               /\ worker' = worker
               /\ cleared' = cleared
     /\ (pub.phase = "clear" /\ Touches) => tasks' = tasks /\ cleared' # cleared]_vars

\* C28 witness: a publish call is suspended in a publishDiagnostics while a
\* task of another source and the worker's clear wait for the lock.
C28_Witness ==
  /\ pub.phase = "awaitRecord"
  /\ Len(lock_queue) = 2
  /\ Worker \in {lock_queue[i] : i \in 1..Len(lock_queue)}
  /\ diagnostics_by_specifier # EmptyMap

\* ---- claims on the call that follows a partial publication
\* The source's slots in the merged store are exactly the records of the
\* batch.
SlotsAreBatch(source, diagnostics) ==
  /\ \A i \in 1..Len(diagnostics) :
       /\ diagnostics[i].specifier \in DOMAIN diagnostics_by_specifier
       /\ source \in DOMAIN diagnostics_by_specifier[diagnostics[i].specifier]
       /\ diagnostics_by_specifier[diagnostics[i].specifier][source] = diagnostics[i].versioned
  /\ \A s \in DOMAIN diagnostics_by_specifier :
       source \in DOMAIN diagnostics_by_specifier[s]
         => \E i \in 1..Len(diagnostics) : diagnostics[i].specifier = s

\* C29: when a publish call of source S was cancelled after publishing part
\* of its batch and the next call of S has returned uncancelled, the merged
\* store's S slots are exactly the records of that next batch and every
\* specifier's last published list is the union of its per-source lists.
C29_NextTaskRepublishesUnion ==
  (ReturnedUncancelled /\ call.op = "publish" /\ call.after_partial)
    => /\ SlotsAreBatch(call.source, call.diagnostics)
       /\ \A s \in Specifiers : ClientList(s) = StoreUnion(s)

\* After such a call the merged store, taken alone, is as the batch leaves
\* it.
NextBatchOwnsSlots ==
  (ReturnedUncancelled /\ call.op = "publish" /\ call.after_partial)
    => SlotsAreBatch(call.source, call.diagnostics)

\* ------------------------------------------------------------ module diagnostics
\* A ModuleSpecifier, as its scheme and what follows it.
ModuleSpecifier(scheme, rest) == [scheme |-> scheme, rest |-> rest]

\* A range of the source text, from a start position to an end position.
Range(start, end) == <<start, end>>

\* deno_graph::Range::includes
RangeIncludes(range, position) == range[1] <= position /\ position <= range[2]

\* deno_graph::Resolution, with what diagnostics read of it.
ResolutionNone == [kind |-> "None"]
ResolutionOk(specifier, range) == [kind |-> "Ok", specifier |-> specifier, range |-> range]
ResolutionErr(error, range) == [kind |-> "Err", error |-> error, range |-> range]

\* Resolution::includes: the resolution has a range and the position lies
\* in it.
ResolutionIncludes(resolution, position) ==
  resolution.kind # "None" /\ RangeIncludes(resolution.range, position)

\* enum DenoDiagnostic
DenoWarn(message) == [kind |-> "DenoWarn", message |-> message]
ImportMapRemap(from, to) == [kind |-> "ImportMapRemap", from |-> from, to |-> to]
InvalidAttributeType(assert_type) == [kind |-> "InvalidAttributeType", assert_type |-> assert_type]
NoAttributeType == [kind |-> "NoAttributeType"]
NoCache(specifier) == [kind |-> "NoCache", specifier |-> specifier]
NoCacheNpm(pkg_req, specifier) ==
  [kind |-> "NoCacheNpm", pkg_req |-> pkg_req, specifier |-> specifier]
NoLocal(specifier) == [kind |-> "NoLocal", specifier |-> specifier]
Redirect(from, to) == [kind |-> "Redirect", from |-> from, to |-> to]
ResolutionError(err) == [kind |-> "ResolutionError", err |-> err]
InvalidNodeSpecifier(specifier) == [kind |-> "InvalidNodeSpecifier", specifier |-> specifier]
BareNodeSpecifier(specifier) == [kind |-> "BareNodeSpecifier", specifier |-> specifier]

\* DenoDiagnostic::code
DenoDiagnosticCode(diag) ==
  CASE diag.kind = "DenoWarn" -> "deno-warn"
    [] diag.kind = "ImportMapRemap" -> "import-map-remap"
    [] diag.kind = "InvalidAttributeType" -> "invalid-attribute-type"
    [] diag.kind = "NoAttributeType" -> "no-attribute-type"
    [] diag.kind = "NoCache" -> "no-cache"
    [] diag.kind = "NoCacheNpm" -> "no-cache-npm"
    [] diag.kind = "NoLocal" -> "no-local"
    [] diag.kind = "Redirect" -> "redirect"
    [] diag.kind = "ResolutionError" ->
         IF diag.err.bare_node_specifier # None
         THEN "import-node-prefix-missing"
         ELSE diag.err.code
    [] diag.kind = "InvalidNodeSpecifier" -> "resolver-error"
    [] diag.kind = "BareNodeSpecifier" -> "import-node-prefix-missing"

\* The severity and the data of DenoDiagnostic::to_lsp_diagnostic (the
\* quick-fix data of NoLocal comes from the file system: `sloppy`).
DenoDiagnosticSeverity(diag) ==
  CASE diag.kind \in {"DenoWarn", "BareNodeSpecifier"} -> "Warning"
    [] diag.kind = "ImportMapRemap" -> "Hint"
    [] diag.kind = "Redirect" -> "Information"
    [] OTHER -> "Error"

DenoDiagnosticData(diag, sloppy) ==
  CASE diag.kind = "ImportMapRemap" -> Some([from |-> diag.from, to |-> diag.to])
    [] diag.kind \in {"NoCache", "NoCacheNpm", "BareNodeSpecifier"} ->
         Some([specifier |-> diag.specifier])
    [] diag.kind = "NoLocal" ->
         IF sloppy = None THEN None
         ELSE Some([specifier |-> diag.specifier, to |-> sloppy[1], message |-> "quick fix"])
    [] diag.kind = "Redirect" -> Some([specifier |-> diag.from, redirect |-> diag.to])
    [] diag.kind = "ResolutionError" ->
         IF diag.err.bare_node_specifier # None
         THEN Some([specifier |-> diag.err.bare_node_specifier[1]])
         ELSE None
    [] OTHER -> None

\* DenoDiagnostic::to_lsp_diagnostic, on a file system without a sloppy
\* import to offer; the message, a text made from the diagnostic and its
\* arguments, is stood for by the diagnostic.
to_lsp_diagnostic(diag, range) ==
  [range |-> range,
   severity |-> DenoDiagnosticSeverity(diag),
   code |-> DenoDiagnosticCode(diag),
   source |-> as_lsp_source("Deno"),
   message |-> diag,
   data |-> DenoDiagnosticData(diag, None)]

\* Node's built-in modules, as far as the model names any.
BuiltinNodeModules == {"fs"}

\* What diagnose_resolution reads of a StateSnapshot:
\*   cache_warnings   the specifiers whose cache metadata has X-Deno-Warning
\*   documents        specifier -> the document's own specifier and media type
\*   npm              None, or whether the resolver is managed, the package
\*                    requirements it has cached, and whether the referrer
\*                    lies in an npm package
\*   maybe_import_map None, or the lookup of each resolved specifier and the
\*                    module names the import map resolves
\* The managed npm resolver of the snapshot, if it has one.
ManagedNpm(snapshot) == snapshot.npm # None /\ snapshot.npm[1].managed

\* Mutant of AttributeDiagnostics: a dynamic import is never diagnosed.
AttributeDiagnosticsStaticOnly(is_dynamic, maybe_assert_type) ==
  IF maybe_assert_type = Some("json") THEN << >>
  ELSE IF is_dynamic THEN << >>
  ELSE IF maybe_assert_type # None THEN <<InvalidAttributeType(maybe_assert_type[1])>>
  ELSE <<NoAttributeType>>

\* `match maybe_assert_type` for a document whose media type is Json.
AttributeDiagnostics(is_dynamic, maybe_assert_type) ==
  IF maybe_assert_type = Some("json") THEN << >>
  ELSE IF maybe_assert_type = None /\ is_dynamic THEN << >>
  ELSE IF maybe_assert_type # None THEN <<InvalidAttributeType(maybe_assert_type[1])>>
  ELSE <<NoAttributeType>>

\* Mutant of MissingDiagnostics: every missing module is called uncached.
MissingAlwaysNoCache(specifier) == <<NoCache(specifier)>>

\* The document is not available: `match specifier.scheme()`.
MissingDiagnostics(specifier) ==
  IF specifier.scheme = "file" THEN <<NoLocal(specifier)>> ELSE <<NoCache(specifier)>>

\* The branch of a `node:` specifier, module_name being what follows the
\* prefix.
NodeDiagnostics(snapshot, dependency_key, specifier) ==
  LET module_name == specifier.rest
  IN IF module_name \notin BuiltinNodeModules
     THEN <<InvalidNodeSpecifier(specifier)>>
     ELSE IF module_name = dependency_key
     THEN IF /\ snapshot.maybe_import_map # None
             /\ module_name \in snapshot.maybe_import_map[1].resolves
          THEN << >>
          ELSE <<BareNodeSpecifier(module_name)>>
     ELSE IF ManagedNpm(snapshot) /\ "@types/node" \notin snapshot.npm[1].cached
     THEN <<NoCacheNpm("@types/node", ModuleSpecifier("npm", "@types/node"))>>
     ELSE << >>

diagnose_resolution(snapshot, dependency_key, resolution, is_dynamic, maybe_assert_type) ==
  IF resolution.kind = "Ok"
  THEN LET specifier == resolution.specifier
           warning == IF specifier \in snapshot.cache_warnings
                      THEN <<DenoWarn("x-deno-warning")>>
                      ELSE << >>
           rest ==
             IF specifier \in DOMAIN snapshot.documents
             THEN LET doc == snapshot.documents[specifier]
                  IN (IF doc.specifier # specifier
                      THEN <<Redirect(specifier, doc.specifier)>>
                      ELSE << >>)
                     \o (IF doc.media_type = "Json"
                         THEN AttributeDiagnostics(is_dynamic, maybe_assert_type)
                         ELSE << >>)
             ELSE IF specifier.scheme = "jsr" THEN << >>
             ELSE IF specifier.scheme = "npm"
             THEN IF ManagedNpm(snapshot) /\ specifier.rest \notin snapshot.npm[1].cached
                  THEN <<NoCacheNpm(specifier.rest, specifier)>>
                  ELSE << >>
             ELSE IF specifier.scheme = "node"
             THEN NodeDiagnostics(snapshot, dependency_key, specifier)
             ELSE MissingDiagnostics(specifier)
       IN warning \o rest
  ELSE IF resolution.kind = "Err"
  THEN <<ResolutionError(resolution.error)>>
  ELSE << >>

\* A deno_graph::Dependency, with what diagnose_dependency reads of it.
Dependency(maybe_code, maybe_type, imports, is_dynamic, maybe_attribute_type) ==
  [maybe_code |-> maybe_code, maybe_type |-> maybe_type, imports |-> imports,
   is_dynamic |-> is_dynamic, maybe_attribute_type |-> maybe_attribute_type]

\* Mutant of AtEveryRange: each diagnostic at the first range alone.
AtFirstRange(diags, ranges) ==
  IF ranges = << >> THEN << >>
  ELSE [n \in 1..Len(diags) |-> to_lsp_diagnostic(diags[n], ranges[1])]

\* Each diagnostic of `diags` at each range of `ranges`, diagnostic by
\* diagnostic (the flat_map over the diagnostics of a map over the ranges).
AtEveryRange(diags, ranges) ==
  [n \in 1..(Len(diags) * Len(ranges)) |->
     to_lsp_diagnostic(diags[((n - 1) \div Len(ranges)) + 1],
                       ranges[((n - 1) % Len(ranges)) + 1])]

\* Mutant of ImportMapRemapOf: the key found is not compared with the key
\* declared.
ImportMapRemapWhatever(snapshot, dependency_key, dependency) ==
  IF /\ snapshot.maybe_import_map # None
     /\ dependency.maybe_code.kind = "Ok"
     /\ snapshot.maybe_import_map[1].lookup[dependency.maybe_code.specifier] # None
  THEN <<to_lsp_diagnostic(
           ImportMapRemap(dependency_key,
                          snapshot.maybe_import_map[1].lookup[dependency.maybe_code.specifier][1]),
           dependency.maybe_code.range)>>
  ELSE << >>

\* The import map's remap of the dependency, if it has one to offer.
ImportMapRemapOf(snapshot, dependency_key, dependency) ==
  IF /\ snapshot.maybe_import_map # None
     /\ dependency.maybe_code.kind = "Ok"
     /\ snapshot.maybe_import_map[1].lookup[dependency.maybe_code.specifier] # None
     /\ snapshot.maybe_import_map[1].lookup[dependency.maybe_code.specifier][1] # dependency_key
  THEN <<to_lsp_diagnostic(
           ImportMapRemap(dependency_key,
                          snapshot.maybe_import_map[1].lookup[dependency.maybe_code.specifier][1]),
           dependency.maybe_code.range)>>
  ELSE << >>

\* The second look at the type resolution: it exists and no import starts
\* inside its range.
TypeDiagnosedApart(dependency) ==
  /\ dependency.maybe_type.kind # "None"
  /\ ~\E i \in 1..Len(dependency.imports) :
        ResolutionIncludes(dependency.maybe_type, dependency.imports[i][1])

\* diagnose_dependency: what it adds to the document's diagnostics.
diagnose_dependency(snapshot, dependency_key, dependency) ==
  IF snapshot.npm # None /\ snapshot.npm[1].in_npm_package
  THEN << >>
  ELSE LET principal == IF dependency.maybe_code.kind = "None"
                        THEN dependency.maybe_type
                        ELSE dependency.maybe_code
       IN ImportMapRemapOf(snapshot, dependency_key, dependency)
          \o AtEveryRange(diagnose_resolution(snapshot, dependency_key, principal,
                                              dependency.is_dynamic,
                                              dependency.maybe_attribute_type),
                          dependency.imports)
          \o (IF TypeDiagnosedApart(dependency)
              THEN AtEveryRange(diagnose_resolution(snapshot, dependency_key,
                                                    dependency.maybe_type,
                                                    dependency.is_dynamic,
                                                    dependency.maybe_attribute_type),
                                <<dependency.maybe_type.range>>)
              ELSE << >>)

\* ---- diagnose_dependency driven directly
\* The specifiers the dependencies resolve to: a local module that is
\* missing, a remote module that carries a warning and was redirected, and
\* a local module the document store holds.
MissingLocal == ModuleSpecifier("file", "/b.ts")
RemoteRedirected == ModuleSpecifier("https", "//x/c.ts")
RemoteCanonical == ModuleSpecifier("https", "//x/c@1/c.ts")
Held == ModuleSpecifier("file", "/ok.ts")
MissingTypes == ModuleSpecifier("file", "/b.d.ts")
CodeSpecifiers == {MissingLocal, RemoteRedirected, Held}

\* The keys the dependencies are declared under, and what an import map
\* may answer to a lookup.
DependencyKeys == {"./b.ts", "std/b"}
Lookups == {None} \cup {Some(k) : k \in DependencyKeys}

\* The ranges of the import statements of a dependency, of its `@deno-types`
\* comment, and of its resolved code specifier.
FirstImport == Range(10, 19)
SecondImport == Range(30, 39)
DenoTypesComment == Range(0, 8)
ImportRanges == {<< >>, <<FirstImport>>, <<SecondImport>>, <<FirstImport, SecondImport>>}

\* A resolver error that names no bare node specifier.
ResolverError == [bare_node_specifier |-> None, code |-> "resolver-error"]

\* The snapshots: the document store and the cache metadata are fixed, the
\* npm resolver and the import map vary.
DependencySnapshots ==
  {[cache_warnings |-> {RemoteRedirected},
    documents |-> [s \in {RemoteRedirected, Held} |->
                     [specifier |-> IF s = RemoteRedirected THEN RemoteCanonical ELSE s,
                      media_type |-> "TypeScript"]],
    npm |-> npm,
    maybe_import_map |-> import_map] :
     npm \in {None} \cup {Some([managed |-> TRUE, cached |-> {}, in_npm_package |-> b]) :
                            b \in BOOLEAN},
     import_map \in {None} \cup {Some([lookup |-> l, resolves |-> {}]) :
                                   l \in [CodeSpecifiers -> Lookups]}}

\* The dependencies: a code resolution that is absent, ok or an error, a
\* type resolution that is absent, ok or an error, at the range of the first
\* import or of a `@deno-types` comment, and none, one or two imports.
Dependencies ==
  {Dependency(maybe_code, maybe_type, imports, FALSE, None) :
     maybe_code \in {ResolutionNone, ResolutionErr(ResolverError, FirstImport)}
                    \cup {ResolutionOk(s, FirstImport) : s \in CodeSpecifiers},
     maybe_type \in {ResolutionNone}
                    \cup {ResolutionOk(MissingTypes, r) : r \in {FirstImport, DenoTypesComment}}
                    \cup {ResolutionErr(ResolverError, r) : r \in {FirstImport, DenoTypesComment}},
     imports \in ImportRanges}

\* The dependencies of a document: none, or one under some key.
DocumentDependencies ==
  {<< >>} \cup {<<[key |-> k, dependency |-> d]>> : k \in DependencyKeys, d \in Dependencies}

\* The body of generate_deno_diagnostics' loop for an enabled document: the
\* diagnostics of its dependencies, one after the other.
RECURSIVE DocumentDiagnostics(_, _)
DocumentDiagnostics(snapshot, dependencies) ==
  IF dependencies = << >> THEN << >>
  ELSE diagnose_dependency(snapshot, Head(dependencies).key, Head(dependencies).dependency)
       \o DocumentDiagnostics(snapshot, Tail(dependencies))

DiagnoseCall ==
  /\ call = NoCall
  /\ \E snapshot \in DependencySnapshots : \E dependencies \in DocumentDependencies :
       call' = [op |-> "diagnose", snapshot |-> snapshot, dependencies |-> dependencies,
                result |-> DocumentDiagnostics(snapshot, dependencies)]
  /\ UNCHANGED <<ts_diagnostics, specifiers, servervars>>

\* diagnose_dependency is a function of the snapshot and the dependency: a
\* behaviour applies it once.
SpecDependency == Init /\ [][DiagnoseCall]_vars

\* ---- claims on diagnose_dependency
\* A document with one dependency has been diagnosed.
OneDependencyDiagnosed == call.op = "diagnose" /\ Len(call.dependencies) = 1

\* The referrer lies inside an npm package.
ReferrerInNpmPackage == call.snapshot.npm # None /\ call.snapshot.npm[1].in_npm_package

\* How often the diagnostic occurs in the list.
Occurrences(list, diagnostic) ==
  Cardinality({n \in 1..Len(list) : list[n] = diagnostic})

\* The domain diagnostics of the principal resolution of the dependency
\* diagnosed, and those of its type resolution.
PrincipalDiagnostics ==
  LET d == call.dependencies[1].dependency
  IN diagnose_resolution(call.snapshot, call.dependencies[1].key,
                         IF d.maybe_code.kind = "None" THEN d.maybe_type ELSE d.maybe_code,
                         d.is_dynamic, d.maybe_attribute_type)
TypeDiagnostics ==
  LET d == call.dependencies[1].dependency
  IN diagnose_resolution(call.snapshot, call.dependencies[1].key, d.maybe_type,
                         d.is_dynamic, d.maybe_attribute_type)

\* Every principal diagnostic occurs once at every import range; the type
\* resolution, when it exists and no import starts inside its range, has
\* each of its diagnostics once at its own range; and the list holds
\* nothing else but import-map remaps.
AttachedToRanges ==
  LET d == call.dependencies[1].dependency
      apart == /\ d.maybe_type.kind # "None"
               /\ \A j \in 1..Len(d.imports) :
                    ~RangeIncludes(d.maybe_type.range, d.imports[j][1])
      remaps == Cardinality({n \in 1..Len(call.result) :
                               call.result[n].code = "import-map-remap"})
  IN /\ \A i \in 1..Len(PrincipalDiagnostics) : \A j \in 1..Len(d.imports) :
          Occurrences(call.result, to_lsp_diagnostic(PrincipalDiagnostics[i], d.imports[j])) = 1
     /\ apart => \A i \in 1..Len(TypeDiagnostics) :
          Occurrences(call.result, to_lsp_diagnostic(TypeDiagnostics[i], d.maybe_type.range)) = 1
     /\ Len(call.result) = remaps + Len(PrincipalDiagnostics) * Len(d.imports)
                           + IF apart THEN Len(TypeDiagnostics) ELSE 0

\* C21 as stated: for one dependency, every domain diagnostic of the
\* principal resolution (code side if present, else type side) is emitted
\* once per import range, k imports giving k copies that differ in range
\* only; if a type resolution exists and no import range starts inside its
\* range, it is diagnosed again and its diagnostics are attached to the type
\* range only.
C21_DiagnosticsPerImportRange == OneDependencyDiagnosed => AttachedToRanges

\* C21 amended: the same for a dependency of a document that lies outside
\* any npm package.
C21_DiagnosticsPerImportRangeOutsideNpm ==
  (OneDependencyDiagnosed /\ ~ReferrerInNpmPackage) => AttachedToRanges

\* C21 witness: a dependency imported twice, whose code resolution yields
\* two diagnostics and whose type resolution, at a `@deno-types` comment,
\* yields one, has been given five diagnostics.
C21_Witness ==
  /\ OneDependencyDiagnosed
  /\ ~ReferrerInNpmPackage
  /\ Len(call.dependencies[1].dependency.imports) = 2
  /\ Len(PrincipalDiagnostics) = 2
  /\ call.dependencies[1].dependency.maybe_type.kind = "Ok"
  /\ call.dependencies[1].dependency.maybe_type.range = DenoTypesComment
  /\ call.snapshot.maybe_import_map = None
  /\ Len(call.result) = 5

\* The import map of the call's snapshot offers, for the code resolution of
\* the dependency diagnosed, a key other than the declared one.
RemapOffered ==
  LET d == call.dependencies[1].dependency
      import_map == call.snapshot.maybe_import_map
  IN /\ import_map # None
     /\ d.maybe_code.kind = "Ok"
     /\ import_map[1].lookup[d.maybe_code.specifier] # None
     /\ import_map[1].lookup[d.maybe_code.specifier][1] # call.dependencies[1].key

\* The ImportMapRemap diagnostic the claim describes.
RemapDiagnostic ==
  LET d == call.dependencies[1].dependency
      from == call.dependencies[1].key
      to == call.snapshot.maybe_import_map[1].lookup[d.maybe_code.specifier][1]
  IN [range |-> d.maybe_code.range, severity |-> "Hint", code |-> "import-map-remap",
      source |-> "deno", message |-> ImportMapRemap(from, to),
      data |-> Some([from |-> from, to |-> to])]

\* The diagnostics of the list that carry the code "import-map-remap".
Remaps == SelectSeq(call.result, LAMBDA diagnostic : diagnostic.code = "import-map-remap")

\* C22: for a dependency of a document outside any npm package, one
\* ImportMapRemap diagnostic (Hint, "import-map-remap", data {from: declared
\* key, to}) is emitted at the resolved code range if and only if an import
\* map is present, the code resolution is ok and the import map's lookup of
\* the resolved specifier returns a key other than the declared one; a
\* document with no dependencies gets an empty list.
C22_ImportMapRemapIffOffered ==
  /\ (OneDependencyDiagnosed /\ ~ReferrerInNpmPackage)
       => Remaps = IF RemapOffered THEN <<RemapDiagnostic>> ELSE << >>
  /\ (call.op = "diagnose" /\ call.dependencies = << >>) => call.result = << >>

\* C22 witness: the import map offers "std/b" for a dependency declared as
\* "./b.ts", and the remap has been emitted ahead of the diagnostic of the
\* resolution.
C22_Witness ==
  /\ OneDependencyDiagnosed
  /\ ~ReferrerInNpmPackage
  /\ RemapOffered
  /\ call.dependencies[1].key = "./b.ts"
  /\ Len(call.result) = 2
  /\ call.result[1] = RemapDiagnostic
  /\ call.result[1].data = Some([from |-> "./b.ts", to |-> "std/b"])

\* ---- diagnose_resolution driven directly
\* The specifiers a resolution may name: a local and a remote module, a jsr
\* and an npm package, a node built-in and a node module that is none.
LocalModule == ModuleSpecifier("file", "/data.json")
RemoteModule == ModuleSpecifier("https", "//x/data.json")
JsrPackage == ModuleSpecifier("jsr", "@std/x")
NpmPackage == ModuleSpecifier("npm", "chalk")
NodeBuiltin == ModuleSpecifier("node", "fs")
NodeUnknown == ModuleSpecifier("node", "nope")
ResolvedSpecifiers ==
  {LocalModule, RemoteModule, JsrPackage, NpmPackage, NodeBuiltin, NodeUnknown}

\* The specifier a document that was redirected goes by.
Canonical(specifier) == ModuleSpecifier(specifier.scheme, "//redirected")

\* What the document store holds for the specifier: nothing, or a document
\* under the same or another specifier, of media type Json or TypeScript.
DocumentsHolding(specifier) ==
  {EmptyMap}
  \cup {[s \in {specifier} |-> [specifier |-> own, media_type |-> media_type]] :
          own \in {specifier, Canonical(specifier)}, media_type \in {"Json", "TypeScript"}}

\* The npm resolvers: none, or one that is managed or not and has cached any
\* of the two package requirements.
NpmResolvers ==
  {None} \cup {Some([managed |-> managed, cached |-> cached, in_npm_package |-> FALSE]) :
                 managed \in BOOLEAN, cached \in SUBSET {"chalk", "@types/node"}}

\* The import maps: none, or one that resolves "fs" or does not.
ImportMaps ==
  {None} \cup {Some([lookup |-> [s \in ResolvedSpecifiers |-> None], resolves |-> resolves]) :
                 resolves \in {{}, {"fs"}}}

\* The resolutions, the keys the dependency may be declared under, and the
\* attribute types of the import.
Resolutions ==
  {ResolutionNone, ResolutionErr(ResolverError, FirstImport)}
  \cup {ResolutionOk(s, FirstImport) : s \in ResolvedSpecifiers}
ResolutionKeys == {"fs", "./data.json"}
AttributeTypes == {None, Some("json"), Some("css")}

ResolveCall ==
  /\ call = NoCall
  /\ \E resolution \in Resolutions, dependency_key \in ResolutionKeys,
        is_dynamic \in BOOLEAN, maybe_assert_type \in AttributeTypes,
        npm \in NpmResolvers, import_map \in ImportMaps, warned \in BOOLEAN :
       \E documents \in IF resolution.kind = "Ok"
                        THEN DocumentsHolding(resolution.specifier)
                        ELSE {EmptyMap} :
         LET snapshot == [cache_warnings |-> IF warned /\ resolution.kind = "Ok"
                                             THEN {resolution.specifier} ELSE {},
                          documents |-> documents,
                          npm |-> npm,
                          maybe_import_map |-> import_map]
         IN call' = [op |-> "resolve", snapshot |-> snapshot,
                     dependency_key |-> dependency_key, resolution |-> resolution,
                     is_dynamic |-> is_dynamic, maybe_assert_type |-> maybe_assert_type,
                     result |-> diagnose_resolution(snapshot, dependency_key, resolution,
                                                    is_dynamic, maybe_assert_type)]
  /\ UNCHANGED <<ts_diagnostics, specifiers, servervars>>

\* diagnose_resolution is a function of the snapshot and the resolution: a
\* behaviour applies it once.
SpecResolution == Init /\ [][ResolveCall]_vars

\* ---- claims on diagnose_resolution
\* diagnose_resolution has been applied to an ok resolution.
OkResolved == call.op = "resolve" /\ call.resolution.kind = "Ok"

\* The document store holds the resolved specifier, and its document is
\* JSON.
HeldDocument == call.resolution.specifier \in DOMAIN call.snapshot.documents
JsonDocument ==
  HeldDocument /\ call.snapshot.documents[call.resolution.specifier].media_type = "Json"

\* The diagnostics of the result of the given kinds.
OfKinds(kinds) == SelectSeq(call.result, LAMBDA diag : diag.kind \in kinds)

\* C31: for an ok resolution to a specifier whose document is JSON,
\* diagnose_resolution yields no attribute diagnostic when the attribute
\* type is "json", none when it is missing and the import is dynamic,
\* NoAttributeType when it is missing and the import is static, and
\* InvalidAttributeType(value) when it is present and not "json", for
\* dynamic imports too.
C31_JsonAttributeChecked ==
  (OkResolved /\ JsonDocument)
    => OfKinds({"NoAttributeType", "InvalidAttributeType"}) =
         IF call.maybe_assert_type = Some("json") THEN << >>
         ELSE IF call.maybe_assert_type = None
         THEN IF call.is_dynamic THEN << >> ELSE <<NoAttributeType>>
         ELSE <<InvalidAttributeType(call.maybe_assert_type[1])>>

\* C31 witness: a dynamic import of a JSON document with the attribute type
\* "css" has been given InvalidAttributeType("css").
C31_Witness ==
  /\ OkResolved
  /\ JsonDocument
  /\ call.is_dynamic
  /\ call.maybe_assert_type = Some("css")
  /\ call.result = <<InvalidAttributeType("css")>>

\* The resolved specifier is one the branches before the last one take.
JsrNpmOrNode == call.resolution.specifier.scheme \in {"jsr", "npm", "node"}

\* C32: for an ok resolution to a specifier the document store does not
\* hold and that is not jsr, npm or node, diagnose_resolution yields exactly
\* one of NoLocal(s) (scheme file) or NoCache(s) (any other scheme); for a
\* jsr specifier it yields no cache diagnostic; and it yields neither
\* NoLocal nor NoCache for a specifier the document store holds.
C32_MissingModuleDiagnosed ==
  OkResolved =>
    LET s == call.resolution.specifier
    IN /\ (~HeldDocument /\ ~JsrNpmOrNode)
            => OfKinds({"NoLocal", "NoCache"}) =
                 IF s.scheme = "file" THEN <<NoLocal(s)>> ELSE <<NoCache(s)>>
       /\ s.scheme = "jsr" => OfKinds({"NoLocal", "NoCache", "NoCacheNpm"}) = << >>
       /\ HeldDocument => OfKinds({"NoLocal", "NoCache"}) = << >>

\* C32 witness: a local module that the document store does not hold, and
\* that has a warning in the cache metadata, has been given the warning and
\* NoLocal.
C32_Witness ==
  /\ OkResolved
  /\ call.resolution.specifier = LocalModule
  /\ ~HeldDocument
  /\ call.result = <<DenoWarn("x-deno-warning"), NoLocal(LocalModule)>>

\* The tail of a node: specifier is a built-in, and the dependency key is
\* resolved by the import map.
NodeResolved == OkResolved /\ ~HeldDocument /\ call.resolution.specifier.scheme = "node"
ImportMapped ==
  /\ call.snapshot.maybe_import_map # None
  /\ call.dependency_key \in call.snapshot.maybe_import_map[1].resolves

\* C33: for an ok resolution to a node: specifier, InvalidNodeSpecifier is
\* yielded if the tail is not a built-in; else BareNodeSpecifier if the tail
\* equals the dependency key and the key is not import-mapped; else, the
\* case of a tail that equals an import-mapped key included,
\* NoCacheNpm(@types/node, npm:@types/node) if a managed npm resolver exists
\* and @types/node is not cached.
C33_NodeSpecifierDiagnosed ==
  NodeResolved =>
    LET s == call.resolution.specifier
        types_node == NoCacheNpm("@types/node", ModuleSpecifier("npm", "@types/node"))
    IN OfKinds({"InvalidNodeSpecifier", "BareNodeSpecifier", "NoCacheNpm"}) =
         IF s.rest \notin BuiltinNodeModules THEN <<InvalidNodeSpecifier(s)>>
         ELSE IF s.rest = call.dependency_key /\ ~ImportMapped
         THEN <<BareNodeSpecifier(s.rest)>>
         ELSE IF ManagedNpm(call.snapshot) /\ "@types/node" \notin call.snapshot.npm[1].cached
         THEN <<types_node>>
         ELSE << >>

\* ---- claims on the server, the stores and the version rule
\* The ts task t passes `!token.is_cancelled()` in this step and writes its
\* batch to the TsDiagnosticsStore.
TsStored(t) ==
  /\ t[2] = "Ts"
  /\ "publish" \notin tasks[t].log
  /\ "publish" \in tasks'[t].log

\* The Update that spawned the running task t was enqueued before the call
\* of invalidate_all: the call has not sent its Clear yet, or the Clear is
\* behind that Update on the channel, or the worker has taken the Clear and
\* cancelled the token the task holds.
EnqueuedBeforeInvalidateAll(t) ==
  \/ caller.pc = "invalidate_all"
  \/ \E i \in 1..Len(channel[1]) : channel[1][i].kind = "Clear"
  \/ worker = "clear"
  \/ tasks[t].token <= cleared

\* C34: from the moment invalidate_all has emptied the TsDiagnosticsStore, no
\* type task of an Update enqueued before the call writes diagnostics to
\* it, whatever the interleaving of the calling thread and the worker.
C34_NoStaleTsAfterInvalidateAll ==
  [][\A t \in TaskIds :
       (caller.invalidations >= 1 /\ TsStored(t) /\ ts_diagnostics' # EmptyMap)
         => ~EnqueuedBeforeInvalidateAll(t)]_vars

\* The call is suspended in a clearing publishDiagnostics: that of a
\* specifier whose last source the clean-up loop has removed.
ClearingSent ==
  /\ call.op = "publish"
  /\ pub.phase = "awaitClear"

\* The specifier of the publishDiagnostics the call is suspended in.
LastSent == pub.sent[Len(pub.sent)]

\* C35: when the publisher has emitted a clearing publishDiagnostics for a
\* specifier whose last source was removed, has_no_cache_diagnostics is
\* false for that specifier, whatever the version the removed source was
\* pinned to and the version DiagnosticsState stores.
C35_ClearingPublishResetsNoCache ==
  ClearingSent => ~has_no_cache_diagnostics(specifiers, LastSent.specifier)

\* ---- the server under fair scheduling
\* A step of the worker thread's runtime: the loop takes a message or is
\* granted the lock, or a task is polled with what it awaited (the previous
\* handle, the timer, the type checker's answer, the lock, the end of the
\* publish_diagnostics it is suspended in).
WorkerThreadStep ==
  \/ WorkerUpdate
  \/ WorkerClear
  \/ WorkerClearLocked
  \/ \E t \in TaskIds : TaskNext(t)

\* The runtime polls a future that can make progress, and the type checker
\* answers: the worker thread does not stop while one of its steps is
\* possible.  Every task ends after a bounded number of steps, so no task
\* is starved by the others.  The calling thread is under no obligation to
\* call anything.
Fairness == WF_vars(WorkerThreadStep)

\* The calls of the fair specification: every Update carries a snapshot
\* with the open document, so that every type task asks the type checker.
FairNext ==
  \/ Start
  \/ Update({"file:///a.ts"})
  \/ InvalidateAllTs
  \/ InvalidateAllSend
  \/ WorkerThreadStep

\* The server as constructed with a batch counter.
FairInit == Init /\ batch_counter = Some(0)

SpecFair == FairInit /\ [][FairNext]_vars /\ Fairness

\* Update u is the last message sent on the channel: it is the last in the
\* queue, or the queue is empty and the message the worker took last was
\* that Update, not a Clear.
LastMessage(u) ==
  /\ channel # None
  /\ caller.updates = u
  /\ IF channel[1] # << >>
     THEN channel[1][Len(channel[1])].kind = "Update"
     ELSE /\ worker = "recv"
          /\ cleared # token - 1
          /\ tasks[<<u, "Ts">>].pc # "none"

\* The three tasks of Update u have taken the publish branch and their
\* publish calls have returned; the tasks of the earlier Updates have ended.
Completed(u) ==
  /\ \A source \in DiagnosticSource :
       /\ tasks[<<u, source>>].pc = "done"
       /\ "publish" \in tasks[<<u, source>>].log
  /\ \A n \in 1..(u - 1) : \A source \in DiagnosticSource : tasks[<<n, source>>].pc = "done"

\* The step takes task t past `previous_handle.await`.
PassesPreviousHandle(t) == tasks[t].pc = "spawned" /\ tasks'[t].pc # "spawned"

\* While U stays the last message, its three tasks come to complete their
\* publish calls.
LastUpdateCompletes ==
  \A u \in 1..MaxUpdates : LastMessage(u) ~> (Completed(u) \/ ~LastMessage(u))

\* C36 as stated: if Update U is the last message on the channel then, under
\* fair scheduling and a type checker that always answers, the three tasks
\* of U eventually run their generators and complete their publish calls
\* uncancelled, each of them running only after every task of every earlier
\* Update has terminated.
C36_LastUpdateRunsAfterAllEarlierTasks ==
  /\ LastUpdateCompletes
  /\ [][\A t \in TaskIds :
          PassesPreviousHandle(t)
            => \A n \in 1..(t[1] - 1) : \A source \in DiagnosticSource :
                 tasks[<<n, source>>].pc = "done"]_vars

\* C36 amended: if Update U is the last message on the channel then, under
\* fair scheduling and a type checker that always answers, the three tasks
\* of U eventually run their generators and complete their publish calls
\* uncancelled, each of them running only after the task of its own source
\* of every earlier Update has terminated; when the three have completed,
\* every task of every earlier Update has terminated.
C36_LastUpdateRunsAfterEarlierTasksOfItsSource ==
  /\ LastUpdateCompletes
  /\ [][\A t \in TaskIds :
          PassesPreviousHandle(t)
            => \A n \in 1..(t[1] - 1) : tasks[<<n, t[2]>>].pc = "done"]_vars

\* C36 witness: the second Update is the last message, its three tasks have
\* completed their publish calls and every task of the first has ended, its
\* type task cancelled after it had asked the type checker.
C36_Witness ==
  /\ LastMessage(2)
  /\ Completed(2)
  /\ tasks[<<1, "Ts">>].log = {"request", "skipped"}

\* A Clear has been completed and Update u, taken by the worker after it, is
\* the last message the worker took: the token of u's tasks is the current
\* one, never cancelled, and the three tasks have taken the publish branch
\* and their publish calls have returned.
PublishedAfterClear(u) ==
  /\ cleared >= 0
  /\ caller.updates = u
  /\ worker = "recv"
  /\ cleared # token - 1
  /\ \A source \in DiagnosticSource :
       /\ tasks[<<u, source>>].pc = "done"
       /\ "publish" \in tasks[<<u, source>>].log

\* C37: after a Clear followed by an Update whose three tasks all publish
\* uncancelled, the editor shows a non-empty diagnostics list for no
\* specifier that is absent from the merged store.
C37_NothingShownBeyondMergedStoreAfterClear ==
  \A u \in 1..MaxUpdates :
    PublishedAfterClear(u)
      => \A s \in DOMAIN client :
           client[s].diagnostics # << >> => s \in DOMAIN diagnostics_by_specifier

\* The step ends the publish call of the type task t, which had taken the
\* publish branch and whose token is not cancelled.
TsPublishReturns(t) ==
  /\ t[2] = "Ts"
  /\ tasks[t].pc \notin {"none", "done"}
  /\ tasks'[t].pc = "done"
  /\ "publish" \in tasks'[t].log
  /\ tasks[t].token \notin cancelled'

\* The TsDiagnosticsStore holds what the type task t wrote ahead of its
\* publish call: nothing has emptied it in between.
TsStoreKept(t) == ts_diagnostics' = TsStoreUpdate(BatchOf(t))

\* The Ts slot the merged store holds for a specifier, if any.
TsSlot(store, s) ==
  IF s \in DOMAIN store /\ "Ts" \in DOMAIN store[s] THEN Some(store[s]["Ts"]) ELSE None

\* The entry the TsDiagnosticsStore holds for a specifier, if any.
TsEntry(store, s) == IF s \in DOMAIN store THEN Some(store[s]) ELSE None

\* C38: when the publish call of a type task returns, the task not
\* cancelled and the TsDiagnosticsStore not emptied since the task wrote it,
\* the TsDiagnosticsStore entry and the merged store's Ts slot agree for
\* every specifier: both absent, or both present with the same version and
\* diagnostics list.
C38_TsStoreAgreesWithMergedStore ==
  [][\A t \in TaskIds :
       (TsPublishReturns(t) /\ TsStoreKept(t))
         => \A s \in Specifiers :
              TsSlot(diagnostics_by_specifier', s) = TsEntry(ts_diagnostics', s)]_vars

\* C38 witness: the publish call of the second Update's type task has
\* returned, and the TsDiagnosticsStore and the merged store's Ts slot hold
\* the same list of one diagnostic for a.ts at that Update's version.
C38_Witness ==
  /\ tasks[<<2, "Ts">>].pc = "done"
  /\ "publish" \in tasks[<<2, "Ts">>].log
  /\ TsEntry(ts_diagnostics, "file:///a.ts") =
       Some([version |-> Some(2), diagnostics |-> <<Diagnostic("Ts")>>])
  /\ TsSlot(diagnostics_by_specifier, "file:///a.ts") = TsEntry(ts_diagnostics, "file:///a.ts")

\* C39: across DiagnosticsState.update calls for one specifier with no
\* DiagnosticsState.clear in between, updates with an absent version
\* included, the version stored for the specifier never decreases: after an
\* update that stores a version, that version is the highest stored for
\* the specifier since it was last cleared.
C39_StoredVersionNeverDecreases ==
  call.op = "state_update"
    => LET stored == specifiers[call.specifier].version
       IN stored # None => stored = HighestStored[call.specifier]

\* The Update messages that were enqueued: those still in the channel and
\* those the worker has taken, whose tasks it has spawned.
EnqueuedIndices ==
  {channel[1][i].batch_index : i \in {j \in 1..Len(channel[1]) : channel[1][j].kind = "Update"}}
  \cup {tasks[t].batch_index : t \in {x \in TaskIds : tasks[x].pc # "none"}}

\* An update call that failed because the server is not started has left
\* the batch counter as the constructor made it, and every batch index the
\* counter has issued is that of one enqueued Update.
IssuedIndicesEnqueued ==
  /\ (call.op = "update" /\ call.result = NotStarted)
       => latest_batch_index(batch_counter) \in {None, Some(0)}
  /\ channel = None => latest_batch_index(batch_counter) \in {None, Some(0)}
  /\ (channel # None /\ batch_counter # None)
       => /\ batch_counter[1] = caller.updates
          /\ EnqueuedIndices = {Some(n) : n \in 1..batch_counter[1]}

====
